---- MODULE Spec2Model ----
(***************************************************************************)
(* A model of the geometry toolkit of arcsupport.py (class GeomTools):      *)
(* segment intersection, grid spatial keys and indices, nearby-key          *)
(* generation, azimuths, line extension along an azimuth and to the nearest *)
(* intersection, the bisection of rectangles and the reduction of polygons; *)
(* of deleteMultipleFC and deleteFields of class ArcTools; and of the       *)
(* logger ArcLogger of logs.py.                                             *)
(*                                                                          *)
(* Numbers.  The Python code computes in IEEE doubles (the module imports   *)
(* true division from __future__ and runs under Python 2.7).  The model     *)
(* computes exactly: coordinates are integers, a quotient n/d is kept as    *)
(* the pair (n, d) and compared by cross-multiplication.  Rounding error of *)
(* the doubles is therefore outside the model, except in the float models   *)
(* of getAzimuth and of intersectLines, which round as the floats do.       *)
(***************************************************************************)
EXTENDS Integers, Sequences, FiniteSets, TLC

VARIABLES
    segA, segB, isect,         \* intersectLines: the two arguments, the result
    keyIn, keyOut,             \* spatialKey: two calls with one grid size, their results
    geom, grid_scale, density, idx,  \* buildSpatialIndex: arguments, result
    fc, fcIdx,                 \* buildSpatialIndexFC: the feature class, the result
    nk,                        \* makeNearbyKeys: the arguments
    nkPc,                      \* ... its position: "for", "lat_while", "lon_while", "pairs", "done", "raised"
    nkFor, nkIter,             \* ... the values of i still to come, iterations of the running while loop
    current_lat, current_lon, delta, lat_increments, lon_increments, newkeys,  \* ... its locals
    line, distance, direction, extended,  \* extendLineAlongAzimuth: arguments, result
    restored,                  \* ... the result of extending the result by -distance
    azLine, azimuthOut,        \* getAzimuth: the argument, the results for it and for its reverse
    lineFC, intersectFC, maxDistance, eliDirection,  \* extendLinesToIntersect: arguments
    extendedLineFC, intersections, closest, eliPc,   \* ... the output rows, its locals, its position
    rectangle, halves,         \* splitRectangle: the argument, the result
    isectAlt,                  \* intersectLines: the results for the arguments swapped and reversed
    polygonFC, basePts, reductionRatio,  \* polygonReduction: the arguments of the running call
    fcCutInHalf,               \* ... the merged halves of the last split, before the delete
    prPc, prDepth, prInput,    \* ... its position, the depth of the recursion, the first fc
    workspace, action, fcList, availableFC,  \* deleteMultipleFC: arguments, the items fcAvailable accepts
    fcToDelete,                \* ... the outcome of the call
    dfFC, dfAction, fieldList, \* deleteFields: the feature class, the arguments
    fieldsToDelete,            \* ... the outcome of the call
    diskLogName, handlers, level,  \* ArcLogger: attributes of the logger
    arcpyLog, nativeLog,       \* ... what arcpy and the handlers have received
    logRaised, logCalls        \* ... the exception of the last call, the number of calls

varsIsect == <<segA, segB, isect>>
varsKey == <<keyIn, keyOut>>
varsIndex == <<geom, grid_scale, density, idx>>
varsFC == <<fc, fcIdx>>
varsNearby == <<nk, nkPc, nkFor, nkIter, current_lat, current_lon, delta,
                lat_increments, lon_increments, newkeys>>
varsExtend == <<line, distance, direction, extended, restored>>
varsAzimuth == <<azLine, azimuthOut>>
varsELI == <<lineFC, intersectFC, maxDistance, eliDirection,
             extendedLineFC, intersections, closest, eliPc>>
varsSplit == <<rectangle, halves>>
varsIsectAlt == <<isectAlt>>
varsReduce == <<polygonFC, basePts, reductionRatio, fcCutInHalf, prPc, prDepth, prInput>>
varsDelFC == <<workspace, action, fcList, availableFC, fcToDelete>>
varsDelFields == <<dfFC, dfAction, fieldList, fieldsToDelete>>
varsLogger == <<diskLogName, handlers, level, arcpyLog, nativeLog, logRaised, logCalls>>
vars == <<segA, segB, isect, keyIn, keyOut, geom, grid_scale, density, idx, fc, fcIdx,
          nk, nkPc, nkFor, nkIter, current_lat, current_lon, delta,
          lat_increments, lon_increments, newkeys,
          line, distance, direction, extended, restored,
          azLine, azimuthOut,
          lineFC, intersectFC, maxDistance, eliDirection,
          extendedLineFC, intersections, closest, eliPc,
          rectangle, halves, isectAlt,
          polygonFC, basePts, reductionRatio, fcCutInHalf, prPc, prDepth, prInput,
          workspace, action, fcList, availableFC, fcToDelete,
          dfFC, dfAction, fieldList, fieldsToDelete,
          diskLogName, handlers, level, arcpyLog, nativeLog, logRaised, logCalls>>

\* The fixed point of the model: a float v of the program is the integer
\* v * Scale, so coordinates and grid sizes are given in tenths.
Scale == 10

Abs(n) == IF n < 0 THEN -n ELSE n
Min(a, b) == IF a <= b THEN a ELSE b
Max(a, b) == IF a >= b THEN a ELSE b

(***************************************************************************)
(* intersectLines (arcsupport.py 1482-1508)                                 *)
(***************************************************************************)
MaxCoord == 2
Coords == 0..MaxCoord
Segments == Coords \X Coords \X Coords \X Coords

None == [kind |-> "None"]
NotCalled == [kind |-> "NotCalled"]
ZeroDivisionError == [kind |-> "ZeroDivisionError"]

\* Python's a / b on floats: the exact quotient, or ZeroDivisionError.
TrueDiv(n, d) == IF d = 0 THEN ZeroDivisionError ELSE [kind |-> "Quot", n |-> n, d |-> d]

\* a < n/d and n/d < a for an integer a and a quotient with d # 0.
LtIntQ(a, q) == IF q.d > 0 THEN a * q.d < q.n ELSE a * q.d > q.n
LtQInt(q, a) == IF q.d > 0 THEN q.n < a * q.d ELSE q.n > a * q.d
LeIntQ(a, q) == IF q.d > 0 THEN a * q.d <= q.n ELSE a * q.d >= q.n
LeQInt(q, a) == IF q.d > 0 THEN q.n <= a * q.d ELSE q.n >= a * q.d

\* Line 1497 with the equality test lost: the division is always attempted.
DetIsZero_Never(det) == FALSE
\* Line 1497: if det == 0
DetIsZero(det) == det = 0

\* Lines 1504-1505 with <= in place of <.
OnBothSegments_Closed(x, y, s1, s2) ==
    /\ LeIntQ(Min(s1[1], s1[3]), x) /\ LeQInt(x, Max(s1[1], s1[3]))
    /\ LeIntQ(Min(s2[1], s2[3]), x) /\ LeQInt(x, Max(s2[1], s2[3]))
    /\ LeIntQ(Min(s1[2], s1[4]), y) /\ LeQInt(y, Max(s1[2], s1[4]))
    /\ LeIntQ(Min(s2[2], s2[4]), y) /\ LeQInt(y, Max(s2[2], s2[4]))
\* Lines 1504-1505 with the tests of the second segment left out.
OnBothSegments_FirstOnly(x, y, s1, s2) ==
    /\ LtIntQ(Min(s1[1], s1[3]), x) /\ LtQInt(x, Max(s1[1], s1[3]))
    /\ LtIntQ(Min(s1[2], s1[4]), y) /\ LtQInt(y, Max(s1[2], s1[4]))
\* Lines 1504-1505: min(x1, x2) < x < max(x1, x2) and ... on both axes, both segments
OnBothSegments(x, y, s1, s2) ==
    /\ LtIntQ(Min(s1[1], s1[3]), x) /\ LtQInt(x, Max(s1[1], s1[3]))
    /\ LtIntQ(Min(s2[1], s2[3]), x) /\ LtQInt(x, Max(s2[1], s2[3]))
    /\ LtIntQ(Min(s1[2], s1[4]), y) /\ LtQInt(y, Max(s1[2], s1[4]))
    /\ LtIntQ(Min(s2[2], s2[4]), y) /\ LtQInt(y, Max(s2[2], s2[4]))

intersectLines(x1y1x2y2, x3y3x4y4) ==
    LET x1 == x1y1x2y2[1]  y1 == x1y1x2y2[2]  x2 == x1y1x2y2[3]  y2 == x1y1x2y2[4]
        x3 == x3y3x4y4[1]  y3 == x3y3x4y4[2]  x4 == x3y3x4y4[3]  y4 == x3y3x4y4[4]
        A1 == y2 - y1
        B1 == x1 - x2
        C1 == A1 * x1 + B1 * y1
        A2 == y4 - y3
        B2 == x3 - x4
        C2 == A2 * x3 + B2 * y3
        det == A1 * B2 - A2 * B1
    IN  IF DetIsZero(det) THEN None
        ELSE LET x == TrueDiv(B2 * C1 - B1 * C2, det)
                 y == TrueDiv(A1 * C2 - A2 * C1, det)
             IN  IF x.kind = "ZeroDivisionError" \/ y.kind = "ZeroDivisionError"
                 THEN ZeroDivisionError
                 ELSE IF OnBothSegments(x, y, x1y1x2y2, x3y3x4y4)
                      THEN [kind |-> "Point", x |-> x, y |-> y]
                      ELSE None

IntersectLines ==
    /\ isect = NotCalled
    /\ isect' = intersectLines(segA, segB)
    /\ UNCHANGED <<segA, segB>>
    /\ UNCHANGED <<varsKey, varsIndex, varsFC, varsNearby, varsExtend, varsAzimuth, varsELI, varsSplit,
                   varsIsectAlt, varsReduce, varsDelFC, varsDelFields, varsLogger>>

NextIsect == IntersectLines

(***************************************************************************)
(* Floats, round() and str() of Python 2.7                                  *)
(*                                                                          *)
(* A float is [s, m]: sign 1 or -1 and magnitude in tenths, so that the     *)
(* negative zero round() produces for a small negative number, which str()  *)
(* prints as '-0.0', is a value of its own.                                 *)
(***************************************************************************)
Float(v) == [s |-> IF v < 0 THEN -1 ELSE 1, m |-> Abs(v)]
FloatValue(f) == f.s * f.m

RECURSIVE Pow10(_)
Pow10(k) == IF k <= 0 THEN 1 ELSE 10 * Pow10(k - 1)

\* The largest k >= 0 with b * 10^k <= a, for a >= b > 0.
RECURSIVE FloorLog10(_, _)
FloorLog10(a, b) == IF a < 10 * b THEN 0 ELSE 1 + FloorLog10(a, 10 * b)

\* int(math.log10(g)) for the float g = gt / Scale > 0: int() truncates
\* toward zero, so a g below 1 gives minus the floor of log10(1 / g).
IntLog10(gt) == IF gt >= Scale THEN FloorLog10(gt, Scale) ELSE -FloorLog10(Scale, gt)

\* Line 1542 with the factor (-1) lost.
RoundFactor_NotNegated(grid_size) == IntLog10(Abs(grid_size))
\* Line 1542: round_factor = (-1) * int(math.log10(abs(grid_size)))
RoundFactor(grid_size) == (-1) * IntLog10(Abs(grid_size))

\* round(v, ndigits) of Python 2: to the nearest multiple of 10^-ndigits, a
\* half away from zero, the sign of v kept.  The model's values have one
\* decimal, so ndigits >= 1 changes nothing.
PyRound(v, ndigits) ==
    IF ndigits >= 1 THEN Float(v)
    ELSE LET u == Scale * Pow10(-ndigits)
         IN  [s |-> IF v < 0 THEN -1 ELSE 1, m |-> ((Abs(v) + u \div 2) \div u) * u]

DigitChars == <<"0", "1", "2", "3", "4", "5", "6", "7", "8", "9">>
RECURSIVE StrNat(_)
StrNat(n) == IF n < 10 THEN <<DigitChars[n + 1]>> ELSE StrNat(n \div 10) \o <<DigitChars[(n % 10) + 1]>>

\* str(f) of a float: sign, whole digits, the point, the decimal.
StrFloat(f) ==
    (IF f.s < 0 THEN <<"-">> ELSE <<>>) \o StrNat(f.m \div Scale) \o <<".">> \o StrNat(f.m % Scale)
\* str(n) of an int.
StrInt(n) == (IF n < 0 THEN <<"-">> ELSE <<>>) \o StrNat(Abs(n))

\* int(a / b) for floats a and b # 0: the quotient truncated toward zero.
IntTrueDiv(a, b) ==
    LET q == Abs(a) \div Abs(b)
    IN  IF (a < 0) # (b < 0) THEN -q ELSE q

(***************************************************************************)
(* spatialKey, spatialKeyFromPoint (arcsupport.py 1530-1550)                *)
(***************************************************************************)
ValueError == [kind |-> "ValueError"]
Key(k) == [kind |-> "Key", key |-> k]

spatialKey(x, y, grid_size, invert) ==
    IF grid_size = 0 THEN ValueError          \* math.log10(0.0)
    ELSE LET round_factor == RoundFactor(grid_size)
             x_key == IF invert
                      THEN StrInt(IntTrueDiv(FloatValue(PyRound(x, round_factor)), grid_size))
                      ELSE StrFloat(PyRound(x, round_factor))
             y_key == IF invert
                      THEN StrInt(IntTrueDiv(FloatValue(PyRound(y, round_factor)), grid_size))
                      ELSE StrFloat(PyRound(y, round_factor))
         IN  Key(x_key \o <<":">> \o y_key)

spatialKeyFromPoint(point, grid_size) == spatialKey(point[1], point[2], grid_size, FALSE)

\* Input values, in tenths.
GridSizes == {-10, 0, 1, 5, 10, 100, 500, 1000}
KeyXs == {-1499, -3, 0, 3, 5, 14, 15, 200, 500, 1499, 1500}
KeyYs == {-3, 250}

SpatialKey ==
    /\ keyOut = NotCalled
    /\ keyOut' = [kind |-> "Called",
                  p |-> spatialKey(keyIn.p[1], keyIn.p[2], keyIn.grid_size, keyIn.invert),
                  q |-> spatialKey(keyIn.q[1], keyIn.q[2], keyIn.grid_size, keyIn.invert)]
    /\ UNCHANGED keyIn
    /\ UNCHANGED <<varsIsect, varsIndex, varsFC, varsNearby, varsExtend, varsAzimuth, varsELI, varsSplit,
                   varsIsectAlt, varsReduce, varsDelFC, varsDelFields, varsLogger>>

NextKey == SpatialKey

(***************************************************************************)
(* buildSpatialIndex (arcsupport.py 1510-1528)                              *)
(***************************************************************************)
MaxVerts == 3
IndexPoints == {<<-3, -3>>, <<3, -3>>, <<14, 250>>, <<15, 250>>, <<200, 250>>, <<1500, -3>>}
Geoms == UNION {[1..n -> IndexPoints] : n \in 0..MaxVerts}
Densities == {"ALL", "ENDS", "MIDPOINTS"}
False == [kind |-> "False"]

\* Lines 1523-1527 with the else branch making a new set as the if branch does.
AddToBucket_Overwrite(d, key, i) ==
    [k \in DOMAIN d \cup {key} |-> IF k = key THEN {i} ELSE d[k]]
\* Lines 1523-1527: the vertex i goes into the bucket of key.
AddToBucket(d, key, i) ==
    IF key \notin DOMAIN d
    THEN [k \in DOMAIN d \cup {key} |-> IF k = key THEN {i} ELSE d[k]]
    ELSE [d EXCEPT ![key] = @ \cup {i}]

\* Lines 1520-1527: the loop over the vertices i .. len(arr) - 1 (i counted
\* from 0 as in the code, arr[i + 1] being that vertex).
RECURSIVE IndexLoop(_, _, _, _)
IndexLoop(arr, grid, i, d) ==
    IF i >= Len(arr) THEN [kind |-> "Index", idx |-> d]
    ELSE LET key == spatialKeyFromPoint(arr[i + 1], grid)
         IN  IF key.kind = "ValueError" THEN ValueError
             ELSE IndexLoop(arr, grid, i + 1, AddToBucket(d, key.key, i))

buildSpatialIndex(g, grid, dens) ==
    IF dens \notin {"ALL", "ENDS"} THEN False
    ELSE IndexLoop(g, grid, 0, <<>>)

BuildSpatialIndex ==
    /\ idx = NotCalled
    /\ idx' = buildSpatialIndex(geom, grid_scale, density)
    /\ UNCHANGED <<geom, grid_scale, density>>
    /\ UNCHANGED <<varsIsect, varsKey, varsFC, varsNearby, varsExtend, varsAzimuth, varsELI, varsSplit,
                   varsIsectAlt, varsReduce, varsDelFC, varsDelFields, varsLogger>>

NextIndex == BuildSpatialIndex

(***************************************************************************)
(* fuzzyCoordinate, buildSpatialIndexFC (arcsupport.py 1596-1650)           *)
(***************************************************************************)
\* round(n / d) of Python 2 for d > 0: the nearest integer, a half away from zero.
PyRoundQuot(n, d) ==
    LET q == (2 * Abs(n) + d) \div (2 * d)
    IN  IF n < 0 THEN -q ELSE q

\* Line 1600: x_round % 1000.0 == 0
OnKeyBoundary(x_round) == x_round % (1000 * Scale) = 0

fuzzyCoordinate(coord) ==
    LET x_round == PyRoundQuot(coord, 100 * Scale) * 100 * Scale
    IN  IF OnKeyBoundary(x_round)
        THEN LET x_diff == x_round - coord
                 x_fuzz == x_round + x_diff
             IN  {coord, x_fuzz}
        ELSE {coord}

\* s[0:n]
Slice(s, n) == SubSeq(s, 1, Min(n, Len(s)))

\* Line 1638: key = '%s:%s' % (str(x)[0:5], str(y)[0:4])
FCKey(x, y) == Slice(StrFloat(Float(x)), 5) \o <<":">> \o Slice(StrFloat(Float(y)), 4)

\* Lines 1639-1649: i is appended to the list idx[key][oid].
AppendToFCIndex(d, key, oid, i) ==
    IF key \notin DOMAIN d
    THEN [k \in DOMAIN d \cup {key} |-> IF k = key THEN (oid :> <<i>>) ELSE d[k]]
    ELSE IF oid \notin DOMAIN d[key]
         THEN [d EXCEPT ![key] = (oid :> <<i>>) @@ @]
         ELSE [d EXCEPT ![key][oid] = Append(@, i)]

\* Lines 1637-1649: the keys of one vertex, one after the other.
RECURSIVE AddKeys(_, _, _, _)
AddKeys(d, xy_coords, oid, i) ==
    IF xy_coords = {} THEN d
    ELSE LET xy == CHOOSE xy \in xy_coords : TRUE
         IN  AddKeys(AppendToFCIndex(d, FCKey(xy[1], xy[2]), oid, i), xy_coords \ {xy}, oid, i)

\* Lines 1627-1649: the vertices i .. len(arr) - 1 of one feature.
RECURSIVE FCVertexLoop(_, _, _, _)
FCVertexLoop(d, arr, oid, i) ==
    IF i >= Len(arr) THEN d
    ELSE LET pt == arr[i + 1]
             x_coords == fuzzyCoordinate(pt[1])
             y_coords == fuzzyCoordinate(pt[2])
         IN  FCVertexLoop(AddKeys(d, x_coords \X y_coords, oid, i), arr, oid, i + 1)

\* Lines 1619-1649: the cursor over the rows (OID@, SHAPE@) from row r on.
RECURSIVE FCRowLoop(_, _, _)
FCRowLoop(d, rows, r) ==
    IF r > Len(rows) THEN d
    ELSE FCRowLoop(FCVertexLoop(d, rows[r].shape, rows[r].oid, 0), rows, r + 1)

buildSpatialIndexFC(rows) == [kind |-> "Index", idx |-> FCRowLoop(<<>>, rows, 1)]

\* Feature classes: up to MaxRows features of up to MaxRowVerts vertices, the
\* coordinates around the corner (12345000, 1235000) of four 1000 m cells.
MaxRows == 2
MaxRowVerts == 2
FCXs == {12344500 * Scale, 12344950 * Scale, 12345000 * Scale, 12345040 * Scale}
FCYs == {1234500 * Scale, 1234960 * Scale, 1235000 * Scale}
FCShapes == UNION {[1..n -> FCXs \X FCYs] : n \in 1..MaxRowVerts}
\* The rows of a feature class with the given shapes; the object ids are the
\* row numbers.
Rows(shapes) == [r \in DOMAIN shapes |-> [oid |-> r, shape |-> shapes[r]]]

BuildSpatialIndexFC ==
    /\ fcIdx = NotCalled
    /\ fcIdx' = buildSpatialIndexFC(fc)
    /\ UNCHANGED fc
    /\ UNCHANGED <<varsIsect, varsKey, varsIndex, varsNearby, varsExtend, varsAzimuth, varsELI, varsSplit,
                   varsIsectAlt, varsReduce, varsDelFC, varsDelFields, varsLogger>>

NextFC == BuildSpatialIndexFC

(***************************************************************************)
(* makeNearbyKeys (arcsupport.py 1552-1594)                                 *)
(***************************************************************************)
\* The while loops are followed for at most MaxIter iterations each.
MaxIter == 7

\* Lines 1571, 1573 with the add left out.
AddStart_Skipped(increments, current) == increments
\* Lines 1571, 1573: lat_increments.add(current_lat), lon_increments.add(current_lon)
AddStart(increments, current) == increments \cup {current}

\* Line 1591 with <= in place of <.
WithinMinDelta_Inclusive(delta_lat, delta_lon, min_delta) ==
    min_delta >= 0 /\ delta_lat * delta_lat + delta_lon * delta_lon <= min_delta * min_delta
\* Lines 1590-1591: math.sqrt(delta_lat * delta_lat + delta_lon * delta_lon) < min_delta
WithinMinDelta(delta_lat, delta_lon, min_delta) ==
    min_delta > 0 /\ delta_lat * delta_lat + delta_lon * delta_lon < min_delta * min_delta

\* Lines 1584-1591: the pairs whose key is taken.
RetainedPairs ==
    {pr \in lat_increments \X lon_increments :
        WithinMinDelta(Abs(pr[1] - nk.lat), Abs(pr[2] - nk.lon), nk.min_delta)}

\* Lines 1569-1574: the next i of the for loop, or the end of the for loop.
NKFor ==
    /\ nkPc = "for"
    /\ IF nkFor = <<>>
       THEN /\ nkPc' = "pairs"
            /\ UNCHANGED <<nkFor, nkIter, current_lat, current_lon, delta,
                           lat_increments, lon_increments>>
       ELSE /\ nkFor' = Tail(nkFor)
            /\ current_lat' = nk.lat
            /\ lat_increments' = AddStart(lat_increments, nk.lat)
            /\ current_lon' = nk.lon
            /\ lon_increments' = AddStart(lon_increments, nk.lon)
            /\ delta' = 0
            /\ nkIter' = 0
            /\ nkPc' = "lat_while"
    /\ UNCHANGED <<nk, newkeys>>
    /\ UNCHANGED <<varsIsect, varsKey, varsIndex, varsFC, varsExtend, varsAzimuth, varsELI, varsSplit,
                   varsIsectAlt, varsReduce, varsDelFC, varsDelFields, varsLogger>>

\* The i of the running iteration of the for loop: [-1, 1] less what is to come.
NKi == IF Len(nkFor) = 1 THEN -1 ELSE 1

\* Lines 1575-1578: one iteration of the latitude loop.
NKLatStep ==
    /\ nkPc = "lat_while"
    /\ delta < nk.max_lat_delta
    /\ nkIter < MaxIter
    /\ current_lat' = current_lat + NKi * nk.grid_size
    /\ delta' = Abs(current_lat' - nk.lat)
    /\ lat_increments' = lat_increments \cup {current_lat'}
    /\ nkIter' = nkIter + 1
    /\ UNCHANGED <<nk, nkPc, nkFor, current_lon, lon_increments, newkeys>>
    /\ UNCHANGED <<varsIsect, varsKey, varsIndex, varsFC, varsExtend, varsAzimuth, varsELI, varsSplit,
                   varsIsectAlt, varsReduce, varsDelFC, varsDelFields, varsLogger>>

\* Lines 1575, 1579: the latitude loop ends.
NKLatExit ==
    /\ nkPc = "lat_while"
    /\ ~(delta < nk.max_lat_delta)
    /\ delta' = 0
    /\ nkIter' = 0
    /\ nkPc' = "lon_while"
    /\ UNCHANGED <<nk, nkFor, current_lat, current_lon, lat_increments, lon_increments, newkeys>>
    /\ UNCHANGED <<varsIsect, varsKey, varsIndex, varsFC, varsExtend, varsAzimuth, varsELI, varsSplit,
                   varsIsectAlt, varsReduce, varsDelFC, varsDelFields, varsLogger>>

\* Lines 1580-1583: one iteration of the longitude loop.
NKLonStep ==
    /\ nkPc = "lon_while"
    /\ delta < nk.max_lon_delta
    /\ nkIter < MaxIter
    /\ current_lon' = current_lon + NKi * nk.grid_size
    /\ delta' = Abs(current_lon' - nk.lon)
    /\ lon_increments' = lon_increments \cup {current_lon'}
    /\ nkIter' = nkIter + 1
    /\ UNCHANGED <<nk, nkPc, nkFor, current_lat, lat_increments, newkeys>>
    /\ UNCHANGED <<varsIsect, varsKey, varsIndex, varsFC, varsExtend, varsAzimuth, varsELI, varsSplit,
                   varsIsectAlt, varsReduce, varsDelFC, varsDelFields, varsLogger>>

\* Line 1580: the longitude loop ends, the for loop goes on.
NKLonExit ==
    /\ nkPc = "lon_while"
    /\ ~(delta < nk.max_lon_delta)
    /\ nkPc' = "for"
    /\ UNCHANGED <<nk, nkFor, nkIter, current_lat, current_lon, delta,
                   lat_increments, lon_increments, newkeys>>
    /\ UNCHANGED <<varsIsect, varsKey, varsIndex, varsFC, varsExtend, varsAzimuth, varsELI, varsSplit,
                   varsIsectAlt, varsReduce, varsDelFC, varsDelFields, varsLogger>>

\* Lines 1584-1594: the keys of the retained pairs; spatialKey raises for all
\* or for none of them.
NKPairs ==
    /\ nkPc = "pairs"
    /\ IF \E pr \in RetainedPairs : spatialKey(pr[2], pr[1], nk.grid_size, FALSE).kind = "ValueError"
       THEN /\ nkPc' = "raised"
            /\ UNCHANGED newkeys
       ELSE /\ nkPc' = "done"
            /\ newkeys' = {spatialKey(pr[2], pr[1], nk.grid_size, FALSE).key : pr \in RetainedPairs}
    /\ UNCHANGED <<nk, nkFor, nkIter, current_lat, current_lon, delta,
                   lat_increments, lon_increments>>
    /\ UNCHANGED <<varsIsect, varsKey, varsIndex, varsFC, varsExtend, varsAzimuth, varsELI, varsSplit,
                   varsIsectAlt, varsReduce, varsDelFC, varsDelFields, varsLogger>>

NextNearby == NKFor \/ NKLatStep \/ NKLatExit \/ NKLonStep \/ NKLonExit \/ NKPairs

\* Arguments, in tenths.
NKArgs ==
    [lat : {0, 490}, lon : {-1230, 3},
     max_lat_delta : {0, 20, 25}, max_lon_delta : {0, 15, 30},
     grid_size : {-10, 0, 5, 10}, min_delta : {0, 10, 13, 30}]

(***************************************************************************)
(* flipLineSegment, getAzimuth, extendLineAlongAzimuth                      *)
(* (arcsupport.py 1381-1448)                                                *)
(*                                                                          *)
(* A polyline is the sequence of its points <<x, y>>.  An azimuth is kept   *)
(* exactly, as the shortest integer vector <<x, y>> that points along it    *)
(* (<<0, 1>> is north, 0 degrees; <<1, 0>> is east, 90 degrees): its sine   *)
(* is x / hypot(x, y) and its cosine y / hypot(x, y).  The lines of the     *)
(* model run along directions whose hypotenuse is an integer.               *)
(***************************************************************************)
RECURSIVE Gcd(_, _)
Gcd(a, b) == IF b = 0 THEN a ELSE Gcd(b, a % b)

\* math.sqrt(n) of a square number n.
SqrtOfSquare(n) == CHOOSE r \in 0..n : r * r = n
Hypot(v) == SqrtOfSquare(v[1] * v[1] + v[2] * v[2])

\* n / d for a quotient that is a whole number.
WholeQuot(n, d) == CHOOSE q \in {n \div d} : q * d = n

firstPoint(g) == g[1]
lastPoint(g) == g[Len(g)]
pointCount(g) == Len(g)

\* Lines 1412-1415: math.degrees(math.atan2(deltaX, deltaY)) % 360, the
\* bearing of the vector (deltaX, deltaY); atan2(0, 0) is 0.
Atan2Degrees(deltaX, deltaY) ==
    IF deltaX = 0 /\ deltaY = 0 THEN <<0, 1>>
    ELSE LET g == Gcd(Abs(deltaX), Abs(deltaY))
         IN  <<deltaX \div g, deltaY \div g>>

getAzimuth(g) ==
    LET x1 == firstPoint(g)[1]
        y1 == firstPoint(g)[2]
        x2 == lastPoint(g)[1]
        y2 == lastPoint(g)[2]
        deltaX == x2 - x1
        deltaY == y2 - y1
    IN  Atan2Degrees(deltaX, deltaY)

\* Line 1425 without the half turn.
Plus180_Omitted(azimuth) == azimuth
\* Line 1425: (azimuth + 180.0) % 360.0
Plus180(azimuth) == <<-azimuth[1], -azimuth[2]>>

\* Lines 1387-1398 without the test of lines 1384-1386.
flipLineSegment_AnyPointCount(g) ==
    [kind |-> "Polyline", pts |-> <<lastPoint(g), firstPoint(g)>>]
flipLineSegment(g) ==
    IF pointCount(g) > 2 THEN False
    ELSE LET x1 == firstPoint(g)[1]
             y1 == firstPoint(g)[2]
             x2 == lastPoint(g)[1]
             y2 == lastPoint(g)[2]
         IN  [kind |-> "Polyline", pts |-> <<<<x2, y2>>, <<x1, y1>>>>]

\* Line 1430 with the cosine in place of the sine.
DeltaX_Cosine(dist, azimuth) == WholeQuot(dist * azimuth[2], Hypot(azimuth))
\* Lines 1429-1430: deltaX = distance * math.sin(math.radians(azimuth))
DeltaX(dist, azimuth) == WholeQuot(dist * azimuth[1], Hypot(azimuth))
\* Lines 1429, 1431: deltaY = distance * math.cos(math.radians(azimuth))
DeltaY(dist, azimuth) == WholeQuot(dist * azimuth[2], Hypot(azimuth))

\* Lines 1439-1440 with the first point in place of the last.
ExtendFrom_FromFirstPoint(g, dist, azimuth) ==
    [kind |-> "Polyline",
     pts |-> <<firstPoint(g), <<firstPoint(g)[1] + DeltaX(dist, azimuth),
                                firstPoint(g)[2] + DeltaY(dist, azimuth)>>>>]
\* Lines 1429-1448: the new two-point line of g, which may be the flipped line.
ExtendFrom(g, dist, azimuth) ==
    LET deltaX == DeltaX(dist, azimuth)
        deltaY == DeltaY(dist, azimuth)
        startX == firstPoint(g)[1]
        startY == firstPoint(g)[2]
        newEndX == lastPoint(g)[1] + deltaX
        newEndY == lastPoint(g)[2] + deltaY
    IN  [kind |-> "Polyline", pts |-> <<<<startX, startY>>, <<newEndX, newEndY>>>>]

extendLineAlongAzimuth(g, dist, dir) ==
    LET azimuth == getAzimuth(g)
    IN  IF dir = "OPPOSITE"
        THEN LET flipped == flipLineSegment(g)
             IN  IF flipped = False THEN False
                 ELSE ExtendFrom(flipped.pts, dist, Plus180(azimuth))
        ELSE ExtendFrom(g, dist, azimuth)

\* Lines: a first point, a last point at 0 .. MaxLen units of length 5 along
\* one of the unit vectors, and between them no point or one.
MaxLen == 2
UnitVectors == {<<0, 5>>, <<5, 0>>, <<0, -5>>, <<-5, 0>>,
                <<3, 4>>, <<4, 3>>, <<-3, 4>>, <<-4, -3>>, <<3, -4>>}
FirstPoints == {<<0, 0>>, <<10, -20>>}
MidPoints == {<<7, 7>>}
Lines ==
    LET ends == {<<f, <<f[1] + m * u[1], f[2] + m * u[2]>>>> :
                    f \in FirstPoints, m \in 0..MaxLen, u \in UnitVectors}
    IN  {<<e[1], e[2]>> : e \in ends} \cup {<<e[1], mid, e[2]>> : e \in ends, mid \in MidPoints}
Distances == {-15, -10, -5, 0, 5, 15}
Directions == {"AZIMUTH", "OPPOSITE"}

ExtendLineAlongAzimuth ==
    /\ extended = NotCalled
    /\ extended' = extendLineAlongAzimuth(line, distance, direction)
    /\ UNCHANGED <<line, distance, direction, restored>>
    /\ UNCHANGED <<varsIsect, varsKey, varsIndex, varsFC, varsNearby, varsAzimuth, varsELI, varsSplit,
                   varsIsectAlt, varsReduce, varsDelFC, varsDelFields, varsLogger>>

\* The second call of a round trip: the line that the first call returned is
\* extended by -distance in the same direction.
ExtendBack ==
    /\ extended # NotCalled
    /\ extended # False
    /\ restored = NotCalled
    /\ restored' = extendLineAlongAzimuth(extended.pts, (-1) * distance, direction)
    /\ UNCHANGED <<line, distance, direction, extended>>
    /\ UNCHANGED <<varsIsect, varsKey, varsIndex, varsFC, varsNearby, varsAzimuth, varsELI, varsSplit,
                   varsIsectAlt, varsReduce, varsDelFC, varsDelFields, varsLogger>>

NextExtend == ExtendLineAlongAzimuth \/ ExtendBack

(***************************************************************************)
(* getAzimuth as a float (arcsupport.py 1371-1379, 1400-1415)               *)
(*                                                                          *)
(* The return value of getAzimuth in degrees, with the rounding of the      *)
(* floats.  An angle is an integer number of units of 1 / AngleUnits        *)
(* degree.  A float keeps MantissaBits significant bits: a magnitude of     *)
(* 2^MantissaBits units or more is rounded to the nearest multiple of its   *)
(* ulp, ties to even.  (The doubles keep 53 bits; the rounding steps are    *)
(* the same at every precision, the magnitudes at which they show scale     *)
(* with 2^-MantissaBits.)                                                   *)
(***************************************************************************)
AngleUnits == 1024
MantissaBits == 12

RECURSIVE Pow2(_)
Pow2(k) == IF k <= 0 THEN 1 ELSE 2 * Pow2(k - 1)

\* The largest k >= 0 with 2^k <= a, for a >= 1.
RECURSIVE FloorLog2(_)
FloorLog2(a) == IF a < 2 THEN 0 ELSE 1 + FloorLog2(a \div 2)

\* The distance between neighbouring floats at the magnitude a (in units).
Ulp(a) == IF a < Pow2(MantissaBits) THEN 1 ELSE Pow2(FloorLog2(a) + 1 - MantissaBits)

\* The float nearest to the exact value v, ties to the even mantissa.
RoundFloat(v) ==
    LET a == Abs(v)
        u == Ulp(a)
        q == a \div u
        r == a % u
        m == IF 2 * r > u \/ (2 * r = u /\ q % 2 = 1) THEN q + 1 ELSE q
    IN  IF v < 0 THEN (-1) * m * u ELSE m * u

\* Line 1415: the operator % of two floats v and w > 0.  Python computes
\* mod = fmod(v, w), which is exact and has the sign of v, and then, for a
\* negative mod, mod += w, a float addition that rounds.
PyFloatMod(v, w) ==
    LET fmod == IF v < 0 THEN (-1) * ((-v) % w) ELSE v % w
    IN  IF fmod < 0 THEN RoundFloat(fmod + w) ELSE fmod

\* n / d rounded to the nearest integer, for n >= 0 and d > 0.
RoundDiv(n, d) == (2 * n + d) \div (2 * d)

\* Line 1414 and math.degrees of line 1415: the float
\* math.degrees(math.atan2(deltaX, deltaY)), between -180 and 180, with the
\* sign of deltaX.  It is exact for a vector along an axis or a diagonal
\* (atan2(0, 0) is 0).  For any other vector, which in the model is nearly
\* vertical, the angle t between the vector and the vertical axis is taken
\* to first order, t = (180 / pi) * |deltaX| / |deltaY| with 180 / pi = 57.3.
DegreesOfAtan2(deltaX, deltaY) ==
    LET sign == IF deltaX < 0 THEN -1 ELSE 1
        t == RoundDiv(573 * AngleUnits * Abs(deltaX), 10 * Abs(deltaY))
    IN  CASE deltaX = 0 /\ deltaY >= 0 -> 0
          [] deltaX = 0 /\ deltaY < 0 -> 180 * AngleUnits
          [] deltaY = 0 -> sign * 90 * AngleUnits
          [] Abs(deltaX) = Abs(deltaY) /\ deltaY > 0 -> sign * 45 * AngleUnits
          [] Abs(deltaX) = Abs(deltaY) /\ deltaY < 0 -> sign * 135 * AngleUnits
          [] OTHER -> IF deltaY > 0
                      THEN RoundFloat(sign * t)
                      ELSE RoundFloat(sign * (180 * AngleUnits - t))

getAzimuthDegrees(g) ==
    LET x1 == firstPoint(g)[1]
        y1 == firstPoint(g)[2]
        x2 == lastPoint(g)[1]
        y2 == lastPoint(g)[2]
        deltaX == x2 - x1
        deltaY == y2 - y1
        azm_absolute == DegreesOfAtan2(deltaX, deltaY)
    IN  PyFloatMod(azm_absolute, 360 * AngleUnits)

\* Lines 1376-1377 without reversed().
flipLine_SameOrder(g) == g
\* Lines 1371-1379: the points of the line in reverse order.
flipLine(g) == [i \in 1..Len(g) |-> g[Len(g) + 1 - i]]

\* Lines: from a first point along a vector that is zero, lies on an axis or
\* a diagonal, or is nearly vertical; with no point or one between the ends.
MaxSteps == 2
AxisVectors == {<<0, 1>>, <<1, 1>>, <<1, 0>>, <<1, -1>>, <<0, -1>>, <<-1, -1>>, <<-1, 0>>, <<-1, 1>>}
SteepVectors == {<<-1, 2000>>, <<-1, 1000>>, <<1, 1000>>, <<-1, 100>>, <<3, 1000>>,
                 <<-2, -1000>>, <<1, -100>>}
AzVectors ==
    {<<0, 0>>} \cup {<<m * v[1], m * v[2]>> : m \in 1..MaxSteps, v \in AxisVectors} \cup SteepVectors
AzLines ==
    LET ends == {<<f, <<f[1] + v[1], f[2] + v[2]>>>> : f \in FirstPoints, v \in AzVectors}
    IN  {<<e[1], e[2]>> : e \in ends} \cup {<<e[1], mid, e[2]>> : e \in ends, mid \in MidPoints}

\* getAzimuth is called on the line and on the line with its points reversed.
GetAzimuth ==
    /\ azimuthOut = NotCalled
    /\ azimuthOut' = [kind |-> "Called",
                      azimuth |-> getAzimuthDegrees(azLine),
                      flipped |-> getAzimuthDegrees(flipLine(azLine))]
    /\ UNCHANGED azLine
    /\ UNCHANGED <<varsIsect, varsKey, varsIndex, varsFC, varsNearby, varsExtend, varsELI, varsSplit,
                   varsIsectAlt, varsReduce, varsDelFC, varsDelFields, varsLogger>>

NextAzimuth == GetAzimuth

(***************************************************************************)
(* extendLinesToIntersect (arcsupport.py 1653-1745)                         *)
(*                                                                          *)
(* A feature class of lines is the sequence of its rows, a row's OID its    *)
(* position.  A feature of the intersect feature class is kept as the       *)
(* sequence of its points that a line can meet.  Intersect_analysis with    *)
(* output type POINT gives, for every line and every feature, the points of *)
(* the feature that lie on the line.                                        *)
(***************************************************************************)
\* The length of a polyline whose segments have whole lengths.
RECURSIVE PolylineLength(_)
PolylineLength(g) ==
    IF Len(g) < 2 THEN 0
    ELSE Hypot(<<g[2][1] - g[1][1], g[2][2] - g[1][2]>>) + PolylineLength(Tail(g))

\* Line 1723: the square of firstPointGeom.distanceTo(inter).
SqDistanceTo(p, q) == (q[1] - p[1]) * (q[1] - p[1]) + (q[2] - p[2]) * (q[2] - p[2])

\* Lines 1666-1674: one row of the first cursor.
ExtendRow(g, dist, dir) ==
    LET e == extendLineAlongAzimuth(g, dist, dir)
    IN  IF e = False THEN g ELSE e.pts

\* Lines 1679-1680 with every point of every feature reported for every line.
PointOnPolyline_Anywhere(p, g) == TRUE
\* Lines 1679-1680: the point p lies on a segment of the polyline g.
PointOnPolyline(p, g) ==
    \E k \in 1..(Len(g) - 1) :
        /\ (g[k + 1][1] - g[k][1]) * (p[2] - g[k][2]) = (g[k + 1][2] - g[k][2]) * (p[1] - g[k][1])
        /\ Min(g[k][1], g[k + 1][1]) <= p[1] /\ p[1] <= Max(g[k][1], g[k + 1][1])
        /\ Min(g[k][2], g[k + 1][2]) <= p[2] /\ p[2] <= Max(g[k][2], g[k + 1][2])

\* Lines 1692-1697: the parts of one multipoint are appended in order.
RECURSIVE PartsOnLine(_, _)
PartsOnLine(feature, g) ==
    IF feature = <<>> THEN <<>>
    ELSE (IF PointOnPolyline(Head(feature), g) THEN <<Head(feature)>> ELSE <<>>)
             \o PartsOnLine(Tail(feature), g)

\* Lines 1679-1697: the list intersections[oid] of the line g, empty where
\* the dict has no entry.
RECURSIVE IndexIntersections(_, _)
IndexIntersections(features, g) ==
    IF features = <<>> THEN <<>>
    ELSE PartsOnLine(Head(features), g) \o IndexIntersections(Tail(features), g)

\* Line 1724 with <= in place of <.
Closer_OrEqual(distSq, minSq) == distSq <= minSq
\* Line 1724: distance < minDistance, both as squares.
Closer(distSq, minSq) == distSq < minSq

\* Lines 1720-1726: the position in the list of the closest intersection, 0
\* for None.  minSq is the square of minDistance.
RECURSIVE ClosestLoop(_, _, _, _, _)
ClosestLoop(possibleIntersections, k, first, minSq, closestIntersection) ==
    IF k > Len(possibleIntersections) THEN closestIntersection
    ELSE LET distSq == SqDistanceTo(first, possibleIntersections[k])
         IN  IF Closer(distSq, minSq)
             THEN ClosestLoop(possibleIntersections, k + 1, first, distSq, k)
             ELSE ClosestLoop(possibleIntersections, k + 1, first, minSq, closestIntersection)

\* Lines 1718-1726.
FindClosest(g, possibleIntersections, maxDist) ==
    LET minDistance == maxDist + PolylineLength(g)
        minSq == IF minDistance <= 0 THEN 0 ELSE minDistance * minDistance
    IN  ClosestLoop(possibleIntersections, 1, firstPoint(g), minSq, 0)

\* Lines 1731-1744: the new segment of a row.
NewSegment(g, inter, dir) ==
    IF dir = "AZIMUTH" THEN <<firstPoint(g), inter>> ELSE <<inter, firstPoint(g)>>

\* Lines 1707-1744: one row of the last cursor.
SnapRow(g, possibleIntersections, maxDist, dir) ==
    IF possibleIntersections = <<>> THEN g
    ELSE LET c == FindClosest(g, possibleIntersections, maxDist)
         IN  IF c = 0 THEN g ELSE NewSegment(g, possibleIntersections[c], dir)

MaxLines == 2
MaxFeatures == 2
ELILines == {<<<<0, 0>>, <<0, 10>>>>, <<<<0, 0>>, <<3, 4>>>>, <<<<0, 0>>, <<3, 4>>, <<-3, 4>>>>}
ELIPoints == {<<0, 5>>, <<0, 10>>, <<0, 15>>, <<0, -5>>, <<6, 8>>, <<3, 4>>, <<-3, 4>>}
ELIFeatures == {<<p>> : p \in ELIPoints} \cup {<<<<0, 15>>, <<0, 5>>>>, <<<<-3, 4>>, <<3, 4>>>>}
MaxDistances == {0, 5}

\* Lines 1665-1674: the copy, and every row of it extended by maxDistance.
ELIExtendRows ==
    /\ eliPc = "start"
    /\ extendedLineFC' = [i \in 1..Len(lineFC) |-> ExtendRow(lineFC[i], maxDistance, eliDirection)]
    /\ eliPc' = "extended"
    /\ UNCHANGED <<lineFC, intersectFC, maxDistance, eliDirection, intersections, closest>>
    /\ UNCHANGED <<varsIsect, varsKey, varsIndex, varsFC, varsNearby, varsExtend, varsAzimuth, varsSplit,
                   varsIsectAlt, varsReduce, varsDelFC, varsDelFields, varsLogger>>

\* Lines 1676-1697: the intersection, indexed by the OID of the line.
ELIIndexIntersections ==
    /\ eliPc = "extended"
    /\ intersections' = [i \in 1..Len(extendedLineFC) |->
                            IndexIntersections(intersectFC, extendedLineFC[i])]
    /\ eliPc' = "indexed"
    /\ UNCHANGED <<lineFC, intersectFC, maxDistance, eliDirection, extendedLineFC, closest>>
    /\ UNCHANGED <<varsIsect, varsKey, varsIndex, varsFC, varsNearby, varsExtend, varsAzimuth, varsSplit,
                   varsIsectAlt, varsReduce, varsDelFC, varsDelFields, varsLogger>>

\* Lines 1706-1744: every row that has a closest intersection is replaced.
ELISnapRows ==
    /\ eliPc = "indexed"
    /\ closest' = [i \in 1..Len(extendedLineFC) |->
                      IF intersections[i] = <<>> THEN 0
                      ELSE FindClosest(extendedLineFC[i], intersections[i], maxDistance)]
    /\ extendedLineFC' = [i \in 1..Len(extendedLineFC) |->
                             SnapRow(extendedLineFC[i], intersections[i], maxDistance, eliDirection)]
    /\ eliPc' = "done"
    /\ UNCHANGED <<lineFC, intersectFC, maxDistance, eliDirection, intersections>>
    /\ UNCHANGED <<varsIsect, varsKey, varsIndex, varsFC, varsNearby, varsExtend, varsAzimuth, varsSplit,
                   varsIsectAlt, varsReduce, varsDelFC, varsDelFields, varsLogger>>

NextELI == ELIExtendRows \/ ELIIndexIntersections \/ ELISnapRows

(***************************************************************************)
(* dist, midpoint, splitRectangle (arcsupport.py 1933-2028)                 *)
(*                                                                          *)
(* A ring is the sequence of the points of rectangle.getPart(0), the        *)
(* closing point included.  A length is kept as its square, which sorts and *)
(* compares as the length does.  The coordinates of the model are even, so  *)
(* that midpoints are whole.                                                *)
(***************************************************************************)
KeyError == [kind |-> "KeyError"]

\* Lines 1934-1940: math.sqrt(...), as its square.
dist(p1, p2) == (p2[1] - p1[1]) * (p2[1] - p1[1]) + (p2[2] - p1[2]) * (p2[2] - p1[2])

\* Lines 1947-1958.
midpointFractional(p1, p2, numer, denom) ==
    LET x1 == p1[1]
        y1 == p1[2]
        x2 == p2[1]
        y2 == p2[2]
        deltaX == x2 - x1
        deltaY == y2 - y1
    IN  <<x1 + WholeQuot(deltaX * numer, denom), y1 + WholeQuot(deltaY * numer, denom)>>

\* Lines 1943-1945: fraction = 0.5
midpoint(p1, p2) == midpointFractional(p1, p2, 1, 2)

\* Line 1988: sorted(edgeLengths)[-2:], the two largest of the four lengths.
TwoLargest(edgeLengths) ==
    LET top == CHOOSE i \in DOMAIN edgeLengths : \A j \in DOMAIN edgeLengths : edgeLengths[j] <= edgeLengths[i]
        rest == DOMAIN edgeLengths \ {top}
        second == CHOOSE i \in rest : \A j \in rest : edgeLengths[j] <= edgeLengths[i]
    IN  {edgeLengths[top], edgeLengths[second]}

\* Lines 2002-2009 with the edges always used as they are.
Renumbered_Never(edges) == edges
\* Lines 2000-2009: the edges renumbered so that the first is a long edge.
Renumbered(edges) ==
    IF ~edges[1].longEdge
    THEN <<edges[2], edges[3], edges[4], edges[1]>>
    ELSE edges

\* Lines 1965-2028.  A ring of fewer than five points has no edges[4], and
\* the loop of line 1981 raises KeyError; of a longer ring the first four
\* edges are used.
splitRectangle(arr) ==
    IF Len(arr) < 5 THEN KeyError
    ELSE LET pts == arr
             edgeLengths == [i \in 1..4 |-> dist(pts[i], pts[i + 1])]
             longEdges == TwoLargest(edgeLengths)
             edges == [i \in 1..4 |->
                          [from |-> pts[i], to |-> pts[i + 1],
                           length |-> edgeLengths[i],
                           longEdge |-> edgeLengths[i] \in longEdges,
                           midpoint |-> midpoint(pts[i], pts[i + 1])]]
             edg == Renumbered(edges)
             p == [i \in {1, 2, 3, 4, 6, 7} |->
                      CASE i = 6 -> edg[1].midpoint
                        [] i = 7 -> edg[3].midpoint
                        [] OTHER -> edg[i].from]
         IN  [kind |-> "List",
              r1pgon |-> <<p[1], p[6], p[7], p[4], p[1]>>,
              r2pgon |-> <<p[6], p[2], p[3], p[7], p[6]>>]

\* Rectangles: the ring from an origin along the edge vectors u and v, which
\* are a long and a short side of a base shape, in either order and with
\* either sign, so that a ring starts at any vertex, with a long or a short
\* edge, clockwise or counterclockwise; 1 .. MaxFactor times the base size.
MaxFactor == 2
BaseShapes == {<<<<10, 0>>, <<0, 4>>>>, <<<<4, 0>>, <<0, 4>>>>,
               <<<<12, 16>>, <<-8, 6>>>>, <<<<6, 8>>, <<-8, 6>>>>}
Origins == {<<0, 0>>, <<2, -6>>}
Ring(o, u, v) ==
    <<o, <<o[1] + u[1], o[2] + u[2]>>, <<o[1] + u[1] + v[1], o[2] + u[2] + v[2]>>,
      <<o[1] + v[1], o[2] + v[2]>>, o>>
Rectangles ==
    {Ring(o, <<k * su * s[a][1], k * su * s[a][2]>>, <<k * sv * s[3 - a][1], k * sv * s[3 - a][2]>>) :
        o \in Origins, s \in BaseShapes, a \in {1, 2}, su \in {-1, 1}, sv \in {-1, 1}, k \in 1..MaxFactor}
\* Rings that are no rectangle: two triangles, a segment, a pentagon and a
\* rectangle with a fifth vertex on a long edge.
OtherRings ==
    {<<<<0, 0>>, <<4, 0>>, <<0, 4>>, <<0, 0>>>>,
     <<<<0, 0>>, <<10, 0>>, <<10, 4>>, <<0, 0>>>>,
     <<<<0, 0>>, <<4, 0>>, <<0, 0>>>>,
     <<<<0, 0>>, <<4, 0>>, <<6, 2>>, <<4, 4>>, <<0, 4>>, <<0, 0>>>>,
     <<<<0, 0>>, <<4, 0>>, <<10, 0>>, <<10, 4>>, <<0, 4>>, <<0, 0>>>>}

SplitRectangle ==
    /\ halves = NotCalled
    /\ halves' = splitRectangle(rectangle)
    /\ UNCHANGED rectangle
    /\ UNCHANGED <<varsIsect, varsKey, varsIndex, varsFC, varsNearby, varsExtend, varsAzimuth, varsELI,
                   varsIsectAlt, varsReduce, varsDelFC, varsDelFields, varsLogger>>

NextSplit == SplitRectangle

(***************************************************************************)
(* intersectLines in float arithmetic (arcsupport.py 1482-1508)             *)
(*                                                                         *)
(* The coordinates are floats, and every product, sum, difference and      *)
(* quotient of lines 1488-1501 is rounded to the nearest float.  The       *)
(* floats are those of the azimuth model, with MantissaBits significant    *)
(* bits: integers below 2^MantissaBits are exact, larger values and        *)
(* quotients are rounded to MantissaBits bits, ties to even.               *)
(***************************************************************************)
\* The float product, sum and difference of two floats.
FloatMul(a, b) == RoundFloat(a * b)
FloatAdd(a, b) == RoundFloat(a + b)
FloatSub(a, b) == RoundFloat(a - b)

\* n / d rounded to the nearest integer, ties to even, for n >= 0 and d > 0.
RoundHalfEven(n, d) ==
    LET q == n \div d
        r == n % d
    IN  IF 2 * r > d \/ (2 * r = d /\ q % 2 = 1) THEN q + 1 ELSE q

\* The least s >= 0 with a * 2^s >= b * 2^(MantissaBits - 1), for a, b > 0.
RECURSIVE ShiftLeft(_, _)
ShiftLeft(a, b) == IF a >= b * Pow2(MantissaBits - 1) THEN 0 ELSE 1 + ShiftLeft(2 * a, b)

\* The least e >= 0 with a < b * 2^(MantissaBits + e), for a, b > 0.
RECURSIVE ShiftRight(_, _)
ShiftRight(a, b) == IF a < b * Pow2(MantissaBits) THEN 0 ELSE 1 + ShiftRight(a, 2 * b)

\* The quotient n / d in lowest terms, for d a power of two.
RECURSIVE Lowest(_, _)
Lowest(n, d) ==
    IF d > 1 /\ n % 2 = 0 THEN Lowest(n \div 2, d \div 2) ELSE [kind |-> "Quot", n |-> n, d |-> d]

\* Lines 1500-1501: the float quotient of two floats, d # 0: the value
\* m * 2^e nearest to n / d with a mantissa m of MantissaBits bits, a
\* quotient with a power of two as denominator.
FloatDiv(n, d) ==
    LET a == Abs(n)
        b == Abs(d)
        sign == IF (n < 0) = (d < 0) THEN 1 ELSE -1
        s == ShiftLeft(a, b)
        e == ShiftRight(a, b)
    IN  IF a = 0 THEN [kind |-> "Quot", n |-> 0, d |-> 1]
        ELSE IF s > 0 THEN Lowest(sign * RoundHalfEven(a * Pow2(s), b), Pow2(s))
        ELSE Lowest(sign * RoundHalfEven(a, b * Pow2(e)) * Pow2(e), 1)

\* Lines 1482-1508, every operation rounded.
intersectLinesFloat(x1y1x2y2, x3y3x4y4) ==
    LET x1 == x1y1x2y2[1]  y1 == x1y1x2y2[2]  x2 == x1y1x2y2[3]  y2 == x1y1x2y2[4]
        x3 == x3y3x4y4[1]  y3 == x3y3x4y4[2]  x4 == x3y3x4y4[3]  y4 == x3y3x4y4[4]
        A1 == FloatSub(y2, y1)
        B1 == FloatSub(x1, x2)
        C1 == FloatAdd(FloatMul(A1, x1), FloatMul(B1, y1))
        A2 == FloatSub(y4, y3)
        B2 == FloatSub(x3, x4)
        C2 == FloatAdd(FloatMul(A2, x3), FloatMul(B2, y3))
        det == FloatSub(FloatMul(A1, B2), FloatMul(A2, B1))
    IN  IF DetIsZero(det) THEN None
        ELSE LET x == FloatDiv(FloatSub(FloatMul(B2, C1), FloatMul(B1, C2)), det)
                 y == FloatDiv(FloatSub(FloatMul(A1, C2), FloatMul(A2, C1)), det)
             IN  IF OnBothSegments(x, y, x1y1x2y2, x3y3x4y4)
                 THEN [kind |-> "Point", x |-> x, y |-> y]
                 ELSE None

\* A segment with its two end points in the opposite order.
Reversed(s) == <<s[3], s[4], s[1], s[2]>>

\* Segments of small integer coordinates, whose products are exact, and
\* segments of coordinates up to 100, whose products are rounded.
FloatSegments ==
    {<<0, 0, 4, 4>>, <<0, 4, 4, 0>>, <<0, 0, 1, 2>>, <<0, 1, 1, 1>>,
     <<-6, -6, 6, 5>>, <<-6, 6, 6, -6>>,
     <<-46, -3, 99, -73>>, <<10, -1, -54, -94>>, <<60, 66, -67, 95>>,
     <<75, 76, 13, 35>>, <<-51, -37, 80, -55>>, <<-41, 78, 89, -65>>}

\* A call of intersectLines.
IntersectLinesFloat ==
    /\ isect = NotCalled
    /\ isect' = intersectLinesFloat(segA, segB)
    /\ UNCHANGED <<segA, segB, isectAlt>>
    /\ UNCHANGED <<varsKey, varsIndex, varsFC, varsNearby, varsExtend, varsAzimuth, varsELI, varsSplit,
                   varsReduce, varsDelFC, varsDelFields, varsLogger>>

\* Four more calls: with the arguments swapped, and with the end points of
\* the first, of the second and of both segments in the opposite order.
IntersectLinesAgain ==
    /\ isect # NotCalled
    /\ isectAlt = NotCalled
    /\ isectAlt' = [swapped |-> intersectLinesFloat(segB, segA),
                    reversedA |-> intersectLinesFloat(Reversed(segA), segB),
                    reversedB |-> intersectLinesFloat(segA, Reversed(segB)),
                    reversedBoth |-> intersectLinesFloat(Reversed(segA), Reversed(segB))]
    /\ UNCHANGED <<segA, segB, isect>>
    /\ UNCHANGED <<varsKey, varsIndex, varsFC, varsNearby, varsExtend, varsAzimuth, varsELI, varsSplit,
                   varsReduce, varsDelFC, varsDelFields, varsLogger>>

NextIsectFloat == IntersectLinesFloat \/ IntersectLinesAgain

(***************************************************************************)
(* polygonReduction (arcsupport.py 2030-2082)                               *)
(*                                                                         *)
(* A feature class is a sequence of polygons, and a polygon is a rectangle  *)
(* with sides along the axes, <<xmin, ymin, xmax, ymax>>: its minimum       *)
(* bounding rectangle is the polygon itself, and its clip by a half of     *)
(* that rectangle is the half.  A call is followed from the measurement to *)
(* the return or to the recursive call, which is the next measurement.     *)
(***************************************************************************)
\* The number of recursive calls the model follows.
MaxDepth == 4

\* The coordinates of the first polygon are multiples of Unit, so that the
\* mid points of MaxDepth bisections are integers.
Unit == Pow2(MaxDepth)

\* Line 2042, fields MBG_Length and MBG_Width of the bounding rectangle of
\* one feature: its longer and its shorter side.
MBG_Length(r) == Max(r[3] - r[1], r[4] - r[2])
MBG_Width(r) == Min(r[3] - r[1], r[4] - r[2])

\* Lines 2042, 2061: the ring of the bounding rectangle of one feature,
\* clockwise from the lower left corner.
MinimumBoundingGeometry(r) ==
    <<<<r[1], r[2]>>, <<r[1], r[4]>>, <<r[3], r[4]>>, <<r[3], r[2]>>, <<r[1], r[2]>>>>

\* Lines 2045-2051: length and width after the cursor loop, those of the
\* last row, 1 and 1 for a feature class without rows.
MeasuredLength(featureClass) ==
    IF featureClass = <<>> THEN 1 ELSE MBG_Length(featureClass[Len(featureClass)])
MeasuredWidth(featureClass) ==
    IF featureClass = <<>> THEN 1 ELSE MBG_Width(featureClass[Len(featureClass)])

\* Lines 2053-2055 with <= in place of <.
RatioBelow_OrEqual(length, width, ratioLimit) == length * ratioLimit[2] <= ratioLimit[1] * width
\* Lines 2053-2055: length / width < reductionRatio, for a width > 0 and a
\* reductionRatio given as <<numerator, denominator>>.
RatioBelow(length, width, ratioLimit) == length * ratioLimit[2] < ratioLimit[1] * width

\* The rectangle <<xmin, ymin, xmax, ymax>> of a ring of splitRectangle.
Envelope(ring) ==
    LET xs == {ring[i][1] : i \in 1..Len(ring)}
        ys == {ring[i][2] : i \in 1..Len(ring)}
        least(S) == CHOOSE v \in S : \A w \in S : v <= w
        largest(S) == CHOOSE v \in S : \A w \in S : v >= w
    IN  <<least(xs), least(ys), largest(xs), largest(ys)>>

\* Line 2067: one feature clipped by a rectangle.
ClipFeature(r, clip) == <<Max(r[1], clip[1]), Max(r[2], clip[2]), Min(r[3], clip[3]), Min(r[4], clip[4])>>

\* Line 2067, arcpy.Clip_analysis: the parts of the features inside the clip
\* rectangle; a feature that has no area in common with it gives no row.
RECURSIVE Clip_analysis(_, _)
Clip_analysis(featureClass, clip) ==
    IF featureClass = <<>> THEN <<>>
    ELSE LET c == ClipFeature(Head(featureClass), clip)
         IN  (IF c[1] < c[3] /\ c[2] < c[4] THEN <<c>> ELSE <<>>)
                 \o Clip_analysis(Tail(featureClass), clip)

\* Line 2073, 'CONTAINS': the point is inside the polygon or on its boundary.
Contains(r, p) == r[1] <= p[1] /\ p[1] <= r[3] /\ r[2] <= p[2] /\ p[2] <= r[4]

\* Line 2073: the rows selected, those that contain a base point.
SelectLayerByLocation(layer, points) ==
    {i \in 1..Len(layer) : \E p \in points : Contains(layer[i], p)}

\* Line 2075: 'SWITCH_SELECTION'.
SwitchSelection(layer, selection) == (1..Len(layer)) \ selection

\* The rows of the layer from row i on that are not selected.
RECURSIVE Unselected(_, _, _)
Unselected(layer, selection, i) ==
    IF i > Len(layer) THEN <<>>
    ELSE (IF i \in selection THEN <<>> ELSE <<layer[i]>>) \o Unselected(layer, selection, i + 1)

\* Line 2078, arcpy.DeleteFeatures_management on a layer: the layers it can
\* leave.  The selected rows are deleted.  With no row selected the tool
\* either deletes nothing or, treating the layer as one without a
\* selection, deletes every row.
DeleteFeatures(layer, selection) ==
    IF selection = {} THEN {layer, <<>>} ELSE {Unselected(layer, selection, 1)}

\* Lines 2042-2058: the measurement and the test of the ratio.
PRMeasure ==
    /\ prPc = "measure"
    /\ prPc' = IF RatioBelow(MeasuredLength(polygonFC), MeasuredWidth(polygonFC), reductionRatio)
               THEN "accepted"
               ELSE "split"
    /\ UNCHANGED <<polygonFC, basePts, reductionRatio, fcCutInHalf, prDepth, prInput>>
    /\ UNCHANGED <<varsIsect, varsKey, varsIndex, varsFC, varsNearby, varsExtend, varsAzimuth, varsELI,
                   varsSplit, varsIsectAlt, varsDelFC, varsDelFields, varsLogger>>

\* Lines 2061-2082: the bisection of the first bounding rectangle, the two
\* clips, the merge, the delete and the recursive call.  rect[0] raises
\* IndexError for a feature class without rows.
PRSplit ==
    /\ prPc = "split"
    /\ IF polygonFC = <<>>
       THEN /\ prPc' = "raised"
            /\ UNCHANGED <<polygonFC, fcCutInHalf, prDepth>>
       ELSE /\ prDepth < MaxDepth
            /\ \E rects \in {splitRectangle(MinimumBoundingGeometry(polygonFC[1]))} :
                   \E merged \in {Clip_analysis(polygonFC, Envelope(rects.r1pgon))
                                      \o Clip_analysis(polygonFC, Envelope(rects.r2pgon))} :
                       \E selection \in {SwitchSelection(merged, SelectLayerByLocation(merged, basePts))} :
                           /\ fcCutInHalf' = merged
                           /\ polygonFC' \in DeleteFeatures(merged, selection)
            /\ prDepth' = prDepth + 1
            /\ prPc' = "measure"
    /\ UNCHANGED <<basePts, reductionRatio, prInput>>
    /\ UNCHANGED <<varsIsect, varsKey, varsIndex, varsFC, varsNearby, varsExtend, varsAzimuth, varsELI,
                   varsSplit, varsIsectAlt, varsDelFC, varsDelFields, varsLogger>>

NextReduce == PRMeasure \/ PRSplit

\* The polygons of the first call: length and width in units.
PolygonShapes == {<<1, 1>>, <<2, 1>>, <<1, 2>>, <<3, 2>>, <<8, 1>>}
Polygons == {<<0, 0, s[1] * Unit, s[2] * Unit>> : s \in PolygonShapes}

\* The base points offered for a polygon: one inside near each of two
\* opposite corners, the centre, and one outside.
BasePointsOf(r) ==
    {<<r[1] + 1, r[2] + 1>>, <<r[3] - 1, r[4] - 1>>,
     <<(r[1] + r[3]) \div 2, (r[2] + r[4]) \div 2>>, <<r[1] - Unit, r[2] - Unit>>}

ReductionRatios == {<<1, 1>>, <<5, 4>>, <<2, 1>>, <<3, 1>>}

(***************************************************************************)
(* deleteMultipleFC (arcsupport.py 473-536) and fcAvailable (103-118)       *)
(*                                                                         *)
(* A workspace is a record of its path, of whether checkFileGDBIntegrity    *)
(* accepts it, and of the names getAllItems lists in it.  The argument     *)
(* fcList is the string 'ALL' or a list of names.                          *)
(***************************************************************************)
\* The longest list of names given to a call.
MaxNames == 3

ALL == [kind |-> "ALL"]
List(names) == [kind |-> "list", names |-> names]

Names == {"a", "b", "c"}

\* Line 520: os.path.join(workspace, fc)
FullPath(ws, name) == <<ws.path, name>>

\* Lines 103-118: the feature class exists, is in a valid workspace and is
\* not locked.
fcAvailable(path) == path \in availableFC

\* list.remove(x): the list without the first x.
RECURSIVE Remove(_, _)
Remove(list, x) ==
    IF list = <<>> THEN <<>>
    ELSE IF Head(list) = x THEN Tail(list)
    ELSE <<Head(list)>> \o Remove(Tail(list), x)

InList(x, list) == \E i \in 1..Len(list) : list[i] = x

\* Lines 490-498: the master list less the names to keep that are in it.
RECURSIVE KeepLoop(_, _)
KeepLoop(names, fcMasterList) ==
    IF names = <<>> THEN fcMasterList
    ELSE KeepLoop(Tail(names),
                  IF InList(Head(names), fcMasterList)
                  THEN Remove(fcMasterList, Head(names))
                  ELSE fcMasterList)

\* Lines 518-521: the full path of every name.
FullPaths(ws, names) == [i \in 1..Len(names) |-> FullPath(ws, names[i])]

\* Lines 525-527: 'for fc in fcToDelete' takes the element at position i of
\* the list as it is now, and goes on to position i + 1 whether or not the
\* body has removed an element.
RECURSIVE AvailableLoop(_, _)
AvailableLoop(list, i) ==
    IF i > Len(list) THEN list
    ELSE IF ~fcAvailable(list[i])
         THEN AvailableLoop(Remove(list, list[i]), i + 1)
         ELSE AvailableLoop(list, i + 1)

\* Lines 473-536.  The result holds the value returned (None at the end of
\* the function), the list after the loop of lines 525-527, and the items
\* given to arcpy.Delete_management, in order.
deleteMultipleFC(ws, act, list) ==
    LET chosen == CASE act = "DEL" /\ list.kind = "list" -> list.names
                    [] act = "KEEP" /\ list.kind = "list" -> KeepLoop(list.names, ws.items)
                    [] act = "KEEP" /\ list = ALL -> <<>>
                    [] act = "DEL" /\ list = ALL -> ws.items
                    [] OTHER -> <<>>
        filtered == AvailableLoop(FullPaths(ws, chosen), 1)
    IN  IF ~ws.valid THEN [kind |-> "Returned", value |-> "False", list |-> <<>>, deleted |-> <<>>]
        ELSE IF Len(chosen) = 0
        THEN [kind |-> "Returned", value |-> "False", list |-> <<>>, deleted |-> <<>>]
        ELSE [kind |-> "Returned", value |-> "None", list |-> filtered, deleted |-> filtered]

NameLists == {List(<<>>)} \cup {List(l) : l \in UNION {[1..n -> Names] : n \in 1..MaxNames}}
Workspaces == [path : {"gdb"}, valid : BOOLEAN, items : {<<"a", "b", "c">>, <<"c", "a">>}]

DeleteMultipleFC ==
    /\ fcToDelete = NotCalled
    /\ fcToDelete' = deleteMultipleFC(workspace, action, fcList)
    /\ UNCHANGED <<workspace, action, fcList, availableFC>>
    /\ UNCHANGED <<varsIsect, varsKey, varsIndex, varsFC, varsNearby, varsExtend, varsAzimuth, varsELI,
                   varsSplit, varsIsectAlt, varsReduce, varsDelFields, varsLogger>>

NextDelFC == DeleteMultipleFC

(***************************************************************************)
(* deleteFields (arcsupport.py 318-375)                                     *)
(*                                                                         *)
(* A feature class is a record of whether fcAvailable accepts it, of the    *)
(* names of its fields in the order of arcpy.ListFields, and of the set of  *)
(* its required fields.  The argument fieldList is the string 'ALL' or a   *)
(* list of names.                                                          *)
(***************************************************************************)
\* Lines 270-275.
getFieldNames(featureClass) == featureClass.fields

\* Lines 306-316, with req = True.
RECURSIVE RequiredOf(_, _)
RequiredOf(names, required) ==
    IF names = <<>> THEN <<>>
    ELSE (IF Head(names) \in required THEN <<Head(names)>> ELSE <<>>)
             \o RequiredOf(Tail(names), required)
getFieldNamesRequired(featureClass) == RequiredOf(featureClass.fields, featureClass.required)

\* Lines 336-337: for f in reqFields: fields.remove(f)
RECURSIVE RemoveEach(_, _)
RemoveEach(fields, reqFields) ==
    IF reqFields = <<>> THEN fields
    ELSE RemoveEach(Remove(fields, Head(reqFields)), Tail(reqFields))

\* Lines 347-355: the fields less the names to keep that are among them.
RECURSIVE SkipLoop(_, _)
SkipLoop(names, fields) ==
    IF names = <<>> THEN fields
    ELSE SkipLoop(Tail(names),
                  IF InList(Head(names), fields) THEN Remove(fields, Head(names)) ELSE fields)

\* Lines 363-366: 'for f in fieldsToDelete' takes the element at position i
\* of the list as it is now, and goes on to position i + 1 whether or not
\* the body has removed an element.
RECURSIVE ExistLoop(_, _, _)
ExistLoop(list, i, fields) ==
    IF i > Len(list) THEN list
    ELSE IF ~InList(list[i], fields)
         THEN ExistLoop(Remove(list, list[i]), i + 1, fields)
         ELSE ExistLoop(list, i + 1, fields)

\* Lines 318-375.  In the branches of lines 342 and 355 fieldsToDelete is
\* the list fields itself, so the loop of lines 363-366 finds every name in
\* it.  The result holds the value returned, whether
\* arcpy.DeleteField_management was called, and the list given to it; the
\* call raises or not (lines 370-375).
deleteFields(featureClass, act, list, raises) ==
    LET nonRequired == RemoveEach(getFieldNames(featureClass), getFieldNamesRequired(featureClass))
        fields == IF act = "KEEP" /\ list.kind = "list"
                  THEN SkipLoop(list.names, nonRequired)
                  ELSE nonRequired
        chosen == CASE list = ALL /\ act = "DEL" -> fields
                    [] list = ALL /\ act = "KEEP" -> <<>>
                    [] act = "DEL" /\ list.kind = "list" -> list.names
                    [] act = "KEEP" /\ list.kind = "list" -> fields
                    [] OTHER -> <<>>
    IN  IF ~featureClass.available \/ Len(chosen) = 0
        THEN [kind |-> "Returned", value |-> "False", called |-> FALSE, handed |-> <<>>]
        ELSE [kind |-> "Returned", value |-> IF raises THEN "False" ELSE "True",
              called |-> TRUE, handed |-> ExistLoop(chosen, 1, fields)]

FieldNames == {"Shape", "f1", "f2", "x"}
FieldLists == {List(<<>>)} \cup {List(l) : l \in UNION {[1..n -> FieldNames] : n \in 1..MaxNames}}
FeatureClasses ==
    [available : BOOLEAN, fields : {<<"OBJECTID", "Shape", "f1", "f2">>}, required : {{"OBJECTID", "Shape"}}]
        \cup [available : BOOLEAN, fields : {<<"OBJECTID", "f1">>}, required : {{"OBJECTID"}}]

DeleteFields ==
    /\ fieldsToDelete = NotCalled
    /\ \E raises \in BOOLEAN : fieldsToDelete' = deleteFields(dfFC, dfAction, fieldList, raises)
    /\ UNCHANGED <<dfFC, dfAction, fieldList>>
    /\ UNCHANGED <<varsIsect, varsKey, varsIndex, varsFC, varsNearby, varsExtend, varsAzimuth, varsELI,
                   varsSplit, varsIsectAlt, varsReduce, varsDelFC, varsLogger>>

NextDelFields == DeleteFields

(***************************************************************************)
(* ArcLogger (logs.py 20-94)                                                *)
(*                                                                         *)
(* The state of a logger: the attribute diskLogName, which is absent until *)
(* it is assigned, the handlers, the level, and what arcpy and the native   *)
(* logger have received.  A call that raises leaves the logger as it is at *)
(* the raise, and the caller may go on using it.                           *)
(***************************************************************************)
\* The number of calls made on one logger.
MaxCalls == 3

\* The attribute is not set: reading it raises AttributeError.
Unset == [kind |-> "Unset"]
Name(n) == [kind |-> "Name", name |-> n]

\* logging.INFO
INFO == 20

\* Lines 57, 68, 76: self.info(msg) passes the record to the handlers if the
\* level of the logger allows INFO.
info(log, msg) == Append(log, [msg |-> msg, emitted |-> level <= INFO])

Messages == {"m1", "m2"}
LogFolders == {"logs", "tmp"}
LogFiles == {"old.txt"}

\* Lines 40-58.  makedirs is needed and fails, or the folder is there.
SetupDiskLog ==
    /\ logCalls < MaxCalls
    /\ \E logFolder \in LogFolders, folderFails \in BOOLEAN :
           IF folderFails
           THEN UNCHANGED <<diskLogName, handlers, nativeLog>>
           ELSE /\ diskLogName' = Name(<<logFolder, "Log.txt">>)
                /\ handlers' = Append(handlers, <<logFolder, "Log.txt">>)
                /\ nativeLog' = info(nativeLog, "Configuring disk log")
    /\ logRaised' = "none"
    /\ logCalls' = logCalls + 1
    /\ UNCHANGED <<level, arcpyLog>>
    /\ UNCHANGED <<varsIsect, varsKey, varsIndex, varsFC, varsNearby, varsExtend, varsAzimuth, varsELI,
                   varsSplit, varsIsectAlt, varsReduce, varsDelFC, varsDelFields>>

\* Lines 60-68.
UseExistingLog ==
    /\ logCalls < MaxCalls
    /\ \E existingLogFileName \in LogFiles, exists \in BOOLEAN :
           IF ~exists
           THEN UNCHANGED <<diskLogName, handlers, nativeLog>>
           ELSE /\ diskLogName' = Name(existingLogFileName)
                /\ handlers' = Append(handlers, existingLogFileName)
                /\ nativeLog' = info(nativeLog, "Using existing log file")
    /\ logRaised' = "none"
    /\ logCalls' = logCalls + 1
    /\ UNCHANGED <<level, arcpyLog>>
    /\ UNCHANGED <<varsIsect, varsKey, varsIndex, varsFC, varsNearby, varsExtend, varsAzimuth, varsELI,
                   varsSplit, varsIsectAlt, varsReduce, varsDelFC, varsDelFields>>

\* Lines 84, 89, 94: the argument self.diskLogName is evaluated before
\* disk() is called, and raises AttributeError where the attribute is absent.
ReadRaises(attribute) == attribute = Unset

\* Lines 80-94: arcMessage, arcWarn and arcError, with the function of arcpy
\* that each calls.  The message goes to arcpy first; disk() (lines 70-76)
\* passes it to self.info.
ArcCall(function, msg) ==
    /\ logCalls < MaxCalls
    /\ arcpyLog' = Append(arcpyLog, [function |-> function, msg |-> msg])
    /\ IF ReadRaises(diskLogName)
       THEN /\ logRaised' = "AttributeError"
            /\ UNCHANGED nativeLog
       ELSE /\ logRaised' = "none"
            /\ nativeLog' = info(nativeLog, msg)
    /\ logCalls' = logCalls + 1
    /\ UNCHANGED <<diskLogName, handlers, level>>
    /\ UNCHANGED <<varsIsect, varsKey, varsIndex, varsFC, varsNearby, varsExtend, varsAzimuth, varsELI,
                   varsSplit, varsIsectAlt, varsReduce, varsDelFC, varsDelFields>>

arcMessage == \E msg \in Messages : ArcCall("AddMessage", msg)
arcWarn == \E msg \in Messages : ArcCall("AddWarning", msg)
arcError == \E msg \in Messages : ArcCall("AddError", msg)

NextLogger == SetupDiskLog \/ UseExistingLog \/ arcMessage \/ arcWarn \/ arcError

(***************************************************************************)
(* Specifications: one per operation.  Each starts from the operation's     *)
(* arguments, drawn from the sets above, the other operations not called.   *)
(***************************************************************************)
InitIsect ==
    /\ segA \in Segments
    /\ segB \in Segments
    /\ isect = NotCalled
    /\ keyIn = <<>> /\ keyOut = NotCalled
    /\ geom = <<>> /\ grid_scale = 0 /\ density = "ALL" /\ idx = NotCalled
    /\ fc = <<>> /\ fcIdx = NotCalled
    /\ nk = <<>> /\ nkPc = "idle" /\ nkFor = <<>> /\ nkIter = 0
    /\ current_lat = 0 /\ current_lon = 0 /\ delta = 0
    /\ lat_increments = {} /\ lon_increments = {} /\ newkeys = {}
    /\ line = <<>> /\ distance = 0 /\ direction = "AZIMUTH" /\ extended = NotCalled /\ restored = NotCalled
    /\ azLine = <<>> /\ azimuthOut = NotCalled
    /\ lineFC = <<>> /\ intersectFC = <<>> /\ maxDistance = 0 /\ eliDirection = "AZIMUTH"
    /\ extendedLineFC = <<>> /\ intersections = <<>> /\ closest = <<>> /\ eliPc = "idle"
    /\ rectangle = <<>> /\ halves = NotCalled
    /\ isectAlt = NotCalled
    /\ polygonFC = <<>> /\ basePts = {} /\ reductionRatio = <<>> /\ fcCutInHalf = <<>>
    /\ prPc = "idle" /\ prDepth = 0 /\ prInput = <<>>
    /\ workspace = <<>> /\ action = "DEL" /\ fcList = <<>> /\ availableFC = {} /\ fcToDelete = NotCalled
    /\ dfFC = <<>> /\ dfAction = "DEL" /\ fieldList = <<>> /\ fieldsToDelete = NotCalled
    /\ diskLogName = <<>> /\ handlers = <<>> /\ level = 0 /\ arcpyLog = <<>> /\ nativeLog = <<>>
    /\ logRaised = "idle" /\ logCalls = 0

InitKey ==
    /\ keyIn \in [p : KeyXs \X KeyYs, q : KeyXs \X KeyYs, grid_size : GridSizes, invert : BOOLEAN]
    /\ keyOut = NotCalled
    /\ segA = <<>> /\ segB = <<>> /\ isect = NotCalled
    /\ geom = <<>> /\ grid_scale = 0 /\ density = "ALL" /\ idx = NotCalled
    /\ fc = <<>> /\ fcIdx = NotCalled
    /\ nk = <<>> /\ nkPc = "idle" /\ nkFor = <<>> /\ nkIter = 0
    /\ current_lat = 0 /\ current_lon = 0 /\ delta = 0
    /\ lat_increments = {} /\ lon_increments = {} /\ newkeys = {}
    /\ line = <<>> /\ distance = 0 /\ direction = "AZIMUTH" /\ extended = NotCalled /\ restored = NotCalled
    /\ azLine = <<>> /\ azimuthOut = NotCalled
    /\ lineFC = <<>> /\ intersectFC = <<>> /\ maxDistance = 0 /\ eliDirection = "AZIMUTH"
    /\ extendedLineFC = <<>> /\ intersections = <<>> /\ closest = <<>> /\ eliPc = "idle"
    /\ rectangle = <<>> /\ halves = NotCalled
    /\ isectAlt = NotCalled
    /\ polygonFC = <<>> /\ basePts = {} /\ reductionRatio = <<>> /\ fcCutInHalf = <<>>
    /\ prPc = "idle" /\ prDepth = 0 /\ prInput = <<>>
    /\ workspace = <<>> /\ action = "DEL" /\ fcList = <<>> /\ availableFC = {} /\ fcToDelete = NotCalled
    /\ dfFC = <<>> /\ dfAction = "DEL" /\ fieldList = <<>> /\ fieldsToDelete = NotCalled
    /\ diskLogName = <<>> /\ handlers = <<>> /\ level = 0 /\ arcpyLog = <<>> /\ nativeLog = <<>>
    /\ logRaised = "idle" /\ logCalls = 0

InitIndex ==
    /\ geom \in Geoms
    /\ grid_scale \in GridSizes
    /\ density \in Densities
    /\ idx = NotCalled
    /\ segA = <<>> /\ segB = <<>> /\ isect = NotCalled
    /\ keyIn = <<>> /\ keyOut = NotCalled
    /\ fc = <<>> /\ fcIdx = NotCalled
    /\ nk = <<>> /\ nkPc = "idle" /\ nkFor = <<>> /\ nkIter = 0
    /\ current_lat = 0 /\ current_lon = 0 /\ delta = 0
    /\ lat_increments = {} /\ lon_increments = {} /\ newkeys = {}
    /\ line = <<>> /\ distance = 0 /\ direction = "AZIMUTH" /\ extended = NotCalled /\ restored = NotCalled
    /\ azLine = <<>> /\ azimuthOut = NotCalled
    /\ lineFC = <<>> /\ intersectFC = <<>> /\ maxDistance = 0 /\ eliDirection = "AZIMUTH"
    /\ extendedLineFC = <<>> /\ intersections = <<>> /\ closest = <<>> /\ eliPc = "idle"
    /\ rectangle = <<>> /\ halves = NotCalled
    /\ isectAlt = NotCalled
    /\ polygonFC = <<>> /\ basePts = {} /\ reductionRatio = <<>> /\ fcCutInHalf = <<>>
    /\ prPc = "idle" /\ prDepth = 0 /\ prInput = <<>>
    /\ workspace = <<>> /\ action = "DEL" /\ fcList = <<>> /\ availableFC = {} /\ fcToDelete = NotCalled
    /\ dfFC = <<>> /\ dfAction = "DEL" /\ fieldList = <<>> /\ fieldsToDelete = NotCalled
    /\ diskLogName = <<>> /\ handlers = <<>> /\ level = 0 /\ arcpyLog = <<>> /\ nativeLog = <<>>
    /\ logRaised = "idle" /\ logCalls = 0

InitFC ==
    /\ \E n \in 0..MaxRows : \E shapes \in [1..n -> FCShapes] : fc = Rows(shapes)
    /\ fcIdx = NotCalled
    /\ segA = <<>> /\ segB = <<>> /\ isect = NotCalled
    /\ keyIn = <<>> /\ keyOut = NotCalled
    /\ geom = <<>> /\ grid_scale = 0 /\ density = "ALL" /\ idx = NotCalled
    /\ nk = <<>> /\ nkPc = "idle" /\ nkFor = <<>> /\ nkIter = 0
    /\ current_lat = 0 /\ current_lon = 0 /\ delta = 0
    /\ lat_increments = {} /\ lon_increments = {} /\ newkeys = {}
    /\ line = <<>> /\ distance = 0 /\ direction = "AZIMUTH" /\ extended = NotCalled /\ restored = NotCalled
    /\ azLine = <<>> /\ azimuthOut = NotCalled
    /\ lineFC = <<>> /\ intersectFC = <<>> /\ maxDistance = 0 /\ eliDirection = "AZIMUTH"
    /\ extendedLineFC = <<>> /\ intersections = <<>> /\ closest = <<>> /\ eliPc = "idle"
    /\ rectangle = <<>> /\ halves = NotCalled
    /\ isectAlt = NotCalled
    /\ polygonFC = <<>> /\ basePts = {} /\ reductionRatio = <<>> /\ fcCutInHalf = <<>>
    /\ prPc = "idle" /\ prDepth = 0 /\ prInput = <<>>
    /\ workspace = <<>> /\ action = "DEL" /\ fcList = <<>> /\ availableFC = {} /\ fcToDelete = NotCalled
    /\ dfFC = <<>> /\ dfAction = "DEL" /\ fieldList = <<>> /\ fieldsToDelete = NotCalled
    /\ diskLogName = <<>> /\ handlers = <<>> /\ level = 0 /\ arcpyLog = <<>> /\ nativeLog = <<>>
    /\ logRaised = "idle" /\ logCalls = 0

InitNearby ==
    /\ nk \in NKArgs
    /\ nkPc = "for" /\ nkFor = <<-1, 1>> /\ nkIter = 0
    /\ current_lat = 0 /\ current_lon = 0 /\ delta = 0
    /\ lat_increments = {} /\ lon_increments = {} /\ newkeys = {}
    /\ segA = <<>> /\ segB = <<>> /\ isect = NotCalled
    /\ keyIn = <<>> /\ keyOut = NotCalled
    /\ geom = <<>> /\ grid_scale = 0 /\ density = "ALL" /\ idx = NotCalled
    /\ fc = <<>> /\ fcIdx = NotCalled
    /\ line = <<>> /\ distance = 0 /\ direction = "AZIMUTH" /\ extended = NotCalled /\ restored = NotCalled
    /\ azLine = <<>> /\ azimuthOut = NotCalled
    /\ lineFC = <<>> /\ intersectFC = <<>> /\ maxDistance = 0 /\ eliDirection = "AZIMUTH"
    /\ extendedLineFC = <<>> /\ intersections = <<>> /\ closest = <<>> /\ eliPc = "idle"
    /\ rectangle = <<>> /\ halves = NotCalled
    /\ isectAlt = NotCalled
    /\ polygonFC = <<>> /\ basePts = {} /\ reductionRatio = <<>> /\ fcCutInHalf = <<>>
    /\ prPc = "idle" /\ prDepth = 0 /\ prInput = <<>>
    /\ workspace = <<>> /\ action = "DEL" /\ fcList = <<>> /\ availableFC = {} /\ fcToDelete = NotCalled
    /\ dfFC = <<>> /\ dfAction = "DEL" /\ fieldList = <<>> /\ fieldsToDelete = NotCalled
    /\ diskLogName = <<>> /\ handlers = <<>> /\ level = 0 /\ arcpyLog = <<>> /\ nativeLog = <<>>
    /\ logRaised = "idle" /\ logCalls = 0

InitExtend ==
    /\ line \in Lines
    /\ distance \in Distances
    /\ direction \in Directions
    /\ extended = NotCalled
    /\ restored = NotCalled
    /\ segA = <<>> /\ segB = <<>> /\ isect = NotCalled
    /\ keyIn = <<>> /\ keyOut = NotCalled
    /\ geom = <<>> /\ grid_scale = 0 /\ density = "ALL" /\ idx = NotCalled
    /\ fc = <<>> /\ fcIdx = NotCalled
    /\ nk = <<>> /\ nkPc = "idle" /\ nkFor = <<>> /\ nkIter = 0
    /\ current_lat = 0 /\ current_lon = 0 /\ delta = 0
    /\ lat_increments = {} /\ lon_increments = {} /\ newkeys = {}
    /\ azLine = <<>> /\ azimuthOut = NotCalled
    /\ lineFC = <<>> /\ intersectFC = <<>> /\ maxDistance = 0 /\ eliDirection = "AZIMUTH"
    /\ extendedLineFC = <<>> /\ intersections = <<>> /\ closest = <<>> /\ eliPc = "idle"
    /\ rectangle = <<>> /\ halves = NotCalled
    /\ isectAlt = NotCalled
    /\ polygonFC = <<>> /\ basePts = {} /\ reductionRatio = <<>> /\ fcCutInHalf = <<>>
    /\ prPc = "idle" /\ prDepth = 0 /\ prInput = <<>>
    /\ workspace = <<>> /\ action = "DEL" /\ fcList = <<>> /\ availableFC = {} /\ fcToDelete = NotCalled
    /\ dfFC = <<>> /\ dfAction = "DEL" /\ fieldList = <<>> /\ fieldsToDelete = NotCalled
    /\ diskLogName = <<>> /\ handlers = <<>> /\ level = 0 /\ arcpyLog = <<>> /\ nativeLog = <<>>
    /\ logRaised = "idle" /\ logCalls = 0

InitAzimuth ==
    /\ azLine \in AzLines
    /\ azimuthOut = NotCalled
    /\ segA = <<>> /\ segB = <<>> /\ isect = NotCalled
    /\ keyIn = <<>> /\ keyOut = NotCalled
    /\ geom = <<>> /\ grid_scale = 0 /\ density = "ALL" /\ idx = NotCalled
    /\ fc = <<>> /\ fcIdx = NotCalled
    /\ nk = <<>> /\ nkPc = "idle" /\ nkFor = <<>> /\ nkIter = 0
    /\ current_lat = 0 /\ current_lon = 0 /\ delta = 0
    /\ lat_increments = {} /\ lon_increments = {} /\ newkeys = {}
    /\ line = <<>> /\ distance = 0 /\ direction = "AZIMUTH" /\ extended = NotCalled /\ restored = NotCalled
    /\ lineFC = <<>> /\ intersectFC = <<>> /\ maxDistance = 0 /\ eliDirection = "AZIMUTH"
    /\ extendedLineFC = <<>> /\ intersections = <<>> /\ closest = <<>> /\ eliPc = "idle"
    /\ rectangle = <<>> /\ halves = NotCalled
    /\ isectAlt = NotCalled
    /\ polygonFC = <<>> /\ basePts = {} /\ reductionRatio = <<>> /\ fcCutInHalf = <<>>
    /\ prPc = "idle" /\ prDepth = 0 /\ prInput = <<>>
    /\ workspace = <<>> /\ action = "DEL" /\ fcList = <<>> /\ availableFC = {} /\ fcToDelete = NotCalled
    /\ dfFC = <<>> /\ dfAction = "DEL" /\ fieldList = <<>> /\ fieldsToDelete = NotCalled
    /\ diskLogName = <<>> /\ handlers = <<>> /\ level = 0 /\ arcpyLog = <<>> /\ nativeLog = <<>>
    /\ logRaised = "idle" /\ logCalls = 0

InitELI ==
    /\ \E n \in 0..MaxLines : lineFC \in [1..n -> ELILines]
    /\ \E n \in 0..MaxFeatures : intersectFC \in [1..n -> ELIFeatures]
    /\ maxDistance \in MaxDistances
    /\ eliDirection \in Directions
    /\ extendedLineFC = <<>> /\ intersections = <<>> /\ closest = <<>> /\ eliPc = "start"
    /\ segA = <<>> /\ segB = <<>> /\ isect = NotCalled
    /\ keyIn = <<>> /\ keyOut = NotCalled
    /\ geom = <<>> /\ grid_scale = 0 /\ density = "ALL" /\ idx = NotCalled
    /\ fc = <<>> /\ fcIdx = NotCalled
    /\ nk = <<>> /\ nkPc = "idle" /\ nkFor = <<>> /\ nkIter = 0
    /\ current_lat = 0 /\ current_lon = 0 /\ delta = 0
    /\ lat_increments = {} /\ lon_increments = {} /\ newkeys = {}
    /\ line = <<>> /\ distance = 0 /\ direction = "AZIMUTH" /\ extended = NotCalled /\ restored = NotCalled
    /\ azLine = <<>> /\ azimuthOut = NotCalled
    /\ rectangle = <<>> /\ halves = NotCalled
    /\ isectAlt = NotCalled
    /\ polygonFC = <<>> /\ basePts = {} /\ reductionRatio = <<>> /\ fcCutInHalf = <<>>
    /\ prPc = "idle" /\ prDepth = 0 /\ prInput = <<>>
    /\ workspace = <<>> /\ action = "DEL" /\ fcList = <<>> /\ availableFC = {} /\ fcToDelete = NotCalled
    /\ dfFC = <<>> /\ dfAction = "DEL" /\ fieldList = <<>> /\ fieldsToDelete = NotCalled
    /\ diskLogName = <<>> /\ handlers = <<>> /\ level = 0 /\ arcpyLog = <<>> /\ nativeLog = <<>>
    /\ logRaised = "idle" /\ logCalls = 0

InitSplit ==
    /\ rectangle \in Rectangles \cup OtherRings
    /\ halves = NotCalled
    /\ segA = <<>> /\ segB = <<>> /\ isect = NotCalled
    /\ keyIn = <<>> /\ keyOut = NotCalled
    /\ geom = <<>> /\ grid_scale = 0 /\ density = "ALL" /\ idx = NotCalled
    /\ fc = <<>> /\ fcIdx = NotCalled
    /\ nk = <<>> /\ nkPc = "idle" /\ nkFor = <<>> /\ nkIter = 0
    /\ current_lat = 0 /\ current_lon = 0 /\ delta = 0
    /\ lat_increments = {} /\ lon_increments = {} /\ newkeys = {}
    /\ line = <<>> /\ distance = 0 /\ direction = "AZIMUTH" /\ extended = NotCalled /\ restored = NotCalled
    /\ azLine = <<>> /\ azimuthOut = NotCalled
    /\ lineFC = <<>> /\ intersectFC = <<>> /\ maxDistance = 0 /\ eliDirection = "AZIMUTH"
    /\ extendedLineFC = <<>> /\ intersections = <<>> /\ closest = <<>> /\ eliPc = "idle"
    /\ isectAlt = NotCalled
    /\ polygonFC = <<>> /\ basePts = {} /\ reductionRatio = <<>> /\ fcCutInHalf = <<>>
    /\ prPc = "idle" /\ prDepth = 0 /\ prInput = <<>>
    /\ workspace = <<>> /\ action = "DEL" /\ fcList = <<>> /\ availableFC = {} /\ fcToDelete = NotCalled
    /\ dfFC = <<>> /\ dfAction = "DEL" /\ fieldList = <<>> /\ fieldsToDelete = NotCalled
    /\ diskLogName = <<>> /\ handlers = <<>> /\ level = 0 /\ arcpyLog = <<>> /\ nativeLog = <<>>
    /\ logRaised = "idle" /\ logCalls = 0

InitIsectFloat ==
    /\ segA \in FloatSegments
    /\ segB \in FloatSegments
    /\ isect = NotCalled
    /\ isectAlt = NotCalled
    /\ keyIn = <<>> /\ keyOut = NotCalled
    /\ geom = <<>> /\ grid_scale = 0 /\ density = "ALL" /\ idx = NotCalled
    /\ fc = <<>> /\ fcIdx = NotCalled
    /\ nk = <<>> /\ nkPc = "idle" /\ nkFor = <<>> /\ nkIter = 0
    /\ current_lat = 0 /\ current_lon = 0 /\ delta = 0
    /\ lat_increments = {} /\ lon_increments = {} /\ newkeys = {}
    /\ line = <<>> /\ distance = 0 /\ direction = "AZIMUTH" /\ extended = NotCalled /\ restored = NotCalled
    /\ azLine = <<>> /\ azimuthOut = NotCalled
    /\ lineFC = <<>> /\ intersectFC = <<>> /\ maxDistance = 0 /\ eliDirection = "AZIMUTH"
    /\ extendedLineFC = <<>> /\ intersections = <<>> /\ closest = <<>> /\ eliPc = "idle"
    /\ rectangle = <<>> /\ halves = NotCalled
    /\ polygonFC = <<>> /\ basePts = {} /\ reductionRatio = <<>> /\ fcCutInHalf = <<>>
    /\ prPc = "idle" /\ prDepth = 0 /\ prInput = <<>>
    /\ workspace = <<>> /\ action = "DEL" /\ fcList = <<>> /\ availableFC = {} /\ fcToDelete = NotCalled
    /\ dfFC = <<>> /\ dfAction = "DEL" /\ fieldList = <<>> /\ fieldsToDelete = NotCalled
    /\ diskLogName = <<>> /\ handlers = <<>> /\ level = 0 /\ arcpyLog = <<>> /\ nativeLog = <<>>
    /\ logRaised = "idle" /\ logCalls = 0

InitReduce ==
    /\ \E r \in Polygons :
           /\ polygonFC = <<r>>
           /\ prInput = <<r>>
           /\ basePts \in SUBSET BasePointsOf(r)
    /\ reductionRatio \in ReductionRatios
    /\ fcCutInHalf = <<>>
    /\ prPc = "measure"
    /\ prDepth = 0
    /\ segA = <<>> /\ segB = <<>> /\ isect = NotCalled
    /\ keyIn = <<>> /\ keyOut = NotCalled
    /\ geom = <<>> /\ grid_scale = 0 /\ density = "ALL" /\ idx = NotCalled
    /\ fc = <<>> /\ fcIdx = NotCalled
    /\ nk = <<>> /\ nkPc = "idle" /\ nkFor = <<>> /\ nkIter = 0
    /\ current_lat = 0 /\ current_lon = 0 /\ delta = 0
    /\ lat_increments = {} /\ lon_increments = {} /\ newkeys = {}
    /\ line = <<>> /\ distance = 0 /\ direction = "AZIMUTH" /\ extended = NotCalled /\ restored = NotCalled
    /\ azLine = <<>> /\ azimuthOut = NotCalled
    /\ lineFC = <<>> /\ intersectFC = <<>> /\ maxDistance = 0 /\ eliDirection = "AZIMUTH"
    /\ extendedLineFC = <<>> /\ intersections = <<>> /\ closest = <<>> /\ eliPc = "idle"
    /\ rectangle = <<>> /\ halves = NotCalled
    /\ isectAlt = NotCalled
    /\ workspace = <<>> /\ action = "DEL" /\ fcList = <<>> /\ availableFC = {} /\ fcToDelete = NotCalled
    /\ dfFC = <<>> /\ dfAction = "DEL" /\ fieldList = <<>> /\ fieldsToDelete = NotCalled
    /\ diskLogName = <<>> /\ handlers = <<>> /\ level = 0 /\ arcpyLog = <<>> /\ nativeLog = <<>>
    /\ logRaised = "idle" /\ logCalls = 0

InitDelFC ==
    /\ workspace \in Workspaces
    /\ action \in {"DEL", "KEEP"}
    /\ fcList \in {ALL} \cup NameLists
    /\ availableFC \in SUBSET {FullPath(workspace, n) : n \in Names}
    /\ fcToDelete = NotCalled
    /\ segA = <<>> /\ segB = <<>> /\ isect = NotCalled
    /\ keyIn = <<>> /\ keyOut = NotCalled
    /\ geom = <<>> /\ grid_scale = 0 /\ density = "ALL" /\ idx = NotCalled
    /\ fc = <<>> /\ fcIdx = NotCalled
    /\ nk = <<>> /\ nkPc = "idle" /\ nkFor = <<>> /\ nkIter = 0
    /\ current_lat = 0 /\ current_lon = 0 /\ delta = 0
    /\ lat_increments = {} /\ lon_increments = {} /\ newkeys = {}
    /\ line = <<>> /\ distance = 0 /\ direction = "AZIMUTH" /\ extended = NotCalled /\ restored = NotCalled
    /\ azLine = <<>> /\ azimuthOut = NotCalled
    /\ lineFC = <<>> /\ intersectFC = <<>> /\ maxDistance = 0 /\ eliDirection = "AZIMUTH"
    /\ extendedLineFC = <<>> /\ intersections = <<>> /\ closest = <<>> /\ eliPc = "idle"
    /\ rectangle = <<>> /\ halves = NotCalled
    /\ isectAlt = NotCalled
    /\ polygonFC = <<>> /\ basePts = {} /\ reductionRatio = <<>> /\ fcCutInHalf = <<>>
    /\ prPc = "idle" /\ prDepth = 0 /\ prInput = <<>>
    /\ dfFC = <<>> /\ dfAction = "DEL" /\ fieldList = <<>> /\ fieldsToDelete = NotCalled
    /\ diskLogName = <<>> /\ handlers = <<>> /\ level = 0 /\ arcpyLog = <<>> /\ nativeLog = <<>>
    /\ logRaised = "idle" /\ logCalls = 0

InitDelFields ==
    /\ dfFC \in FeatureClasses
    /\ dfAction \in {"DEL", "KEEP"}
    /\ fieldList \in {ALL} \cup FieldLists
    /\ fieldsToDelete = NotCalled
    /\ segA = <<>> /\ segB = <<>> /\ isect = NotCalled
    /\ keyIn = <<>> /\ keyOut = NotCalled
    /\ geom = <<>> /\ grid_scale = 0 /\ density = "ALL" /\ idx = NotCalled
    /\ fc = <<>> /\ fcIdx = NotCalled
    /\ nk = <<>> /\ nkPc = "idle" /\ nkFor = <<>> /\ nkIter = 0
    /\ current_lat = 0 /\ current_lon = 0 /\ delta = 0
    /\ lat_increments = {} /\ lon_increments = {} /\ newkeys = {}
    /\ line = <<>> /\ distance = 0 /\ direction = "AZIMUTH" /\ extended = NotCalled /\ restored = NotCalled
    /\ azLine = <<>> /\ azimuthOut = NotCalled
    /\ lineFC = <<>> /\ intersectFC = <<>> /\ maxDistance = 0 /\ eliDirection = "AZIMUTH"
    /\ extendedLineFC = <<>> /\ intersections = <<>> /\ closest = <<>> /\ eliPc = "idle"
    /\ rectangle = <<>> /\ halves = NotCalled
    /\ isectAlt = NotCalled
    /\ polygonFC = <<>> /\ basePts = {} /\ reductionRatio = <<>> /\ fcCutInHalf = <<>>
    /\ prPc = "idle" /\ prDepth = 0 /\ prInput = <<>>
    /\ workspace = <<>> /\ action = "DEL" /\ fcList = <<>> /\ availableFC = {} /\ fcToDelete = NotCalled
    /\ diskLogName = <<>> /\ handlers = <<>> /\ level = 0 /\ arcpyLog = <<>> /\ nativeLog = <<>>
    /\ logRaised = "idle" /\ logCalls = 0

InitLogger ==
    /\ diskLogName = Unset
    /\ handlers = <<"stream">>
    /\ level \in {10, 20, 30}
    /\ arcpyLog = <<>>
    /\ nativeLog = <<>>
    /\ logRaised = "none"
    /\ logCalls = 0
    /\ segA = <<>> /\ segB = <<>> /\ isect = NotCalled
    /\ keyIn = <<>> /\ keyOut = NotCalled
    /\ geom = <<>> /\ grid_scale = 0 /\ density = "ALL" /\ idx = NotCalled
    /\ fc = <<>> /\ fcIdx = NotCalled
    /\ nk = <<>> /\ nkPc = "idle" /\ nkFor = <<>> /\ nkIter = 0
    /\ current_lat = 0 /\ current_lon = 0 /\ delta = 0
    /\ lat_increments = {} /\ lon_increments = {} /\ newkeys = {}
    /\ line = <<>> /\ distance = 0 /\ direction = "AZIMUTH" /\ extended = NotCalled /\ restored = NotCalled
    /\ azLine = <<>> /\ azimuthOut = NotCalled
    /\ lineFC = <<>> /\ intersectFC = <<>> /\ maxDistance = 0 /\ eliDirection = "AZIMUTH"
    /\ extendedLineFC = <<>> /\ intersections = <<>> /\ closest = <<>> /\ eliPc = "idle"
    /\ rectangle = <<>> /\ halves = NotCalled
    /\ isectAlt = NotCalled
    /\ polygonFC = <<>> /\ basePts = {} /\ reductionRatio = <<>> /\ fcCutInHalf = <<>>
    /\ prPc = "idle" /\ prDepth = 0 /\ prInput = <<>>
    /\ workspace = <<>> /\ action = "DEL" /\ fcList = <<>> /\ availableFC = {} /\ fcToDelete = NotCalled
    /\ dfFC = <<>> /\ dfAction = "DEL" /\ fieldList = <<>> /\ fieldsToDelete = NotCalled

SpecIsect == InitIsect /\ [][NextIsect]_vars
SpecKey == InitKey /\ [][NextKey]_vars
SpecIndex == InitIndex /\ [][NextIndex]_vars
SpecFC == InitFC /\ [][NextFC]_vars
SpecNearby == InitNearby /\ [][NextNearby]_vars
SpecExtend == InitExtend /\ [][NextExtend]_vars
SpecAzimuth == InitAzimuth /\ [][NextAzimuth]_vars
SpecELI == InitELI /\ [][NextELI]_vars
SpecSplit == InitSplit /\ [][NextSplit]_vars

\* makeNearbyKeys as a running call: the interpreter goes on executing the
\* call, so a step that is possible is eventually taken.
SpecNearbyLive == InitNearby /\ [][NextNearby]_vars /\ WF_vars(NextNearby)
SpecIsectFloat == InitIsectFloat /\ [][NextIsectFloat]_vars
\* polygonReduction as a running call: a step that is possible is
\* eventually taken.
SpecReduce == InitReduce /\ [][NextReduce]_vars
SpecReduceLive == InitReduce /\ [][NextReduce]_vars /\ WF_vars(NextReduce)
SpecDelFC == InitDelFC /\ [][NextDelFC]_vars
SpecDelFields == InitDelFields /\ [][NextDelFields]_vars
SpecLogger == InitLogger /\ [][NextLogger]_vars

(***************************************************************************)
(* Claims about intersectLines                                              *)
(***************************************************************************)
\* Twice the signed area of the triangle (p, q, r): its sign tells on which
\* side of the line through p and q the point r lies.
Orient(px, py, qx, qy, rx, ry) == (qx - px) * (ry - py) - (qy - py) * (rx - px)

\* The supporting lines have the same direction, or a segment is a single point.
Parallel(s, t) == (s[3] - s[1]) * (t[4] - t[2]) - (s[4] - s[2]) * (t[3] - t[1]) = 0

\* The segments cross in a point strictly between the endpoints of both: the
\* endpoints of each lie strictly on opposite sides of the other's line.
ProperCross(s, t) ==
    /\ Orient(s[1], s[2], s[3], s[4], t[1], t[2]) * Orient(s[1], s[2], s[3], s[4], t[3], t[4]) < 0
    /\ Orient(t[1], t[2], t[3], t[4], s[1], s[2]) * Orient(t[1], t[2], t[3], t[4], s[3], s[4]) < 0

\* The point (x, y), two quotients, lies on the line through the segment s.
OnLineOf(x, y, s) ==
    (s[3] - s[1]) * (y.n * x.d - s[2] * y.d * x.d) = (s[4] - s[2]) * (x.n * y.d - s[1] * x.d * y.d)

\* The integer point (px, py) lies on the closed segment s.
OnClosedSegment(px, py, s) ==
    /\ Orient(s[1], s[2], s[3], s[4], px, py) = 0
    /\ Min(s[1], s[3]) <= px /\ px <= Max(s[1], s[3])
    /\ Min(s[2], s[4]) <= py /\ py <= Max(s[2], s[4])

\* An endpoint of one segment lies on the other segment.
TouchAtEndpoint(s, t) ==
    \/ OnClosedSegment(s[1], s[2], t) \/ OnClosedSegment(s[3], s[4], t)
    \/ OnClosedSegment(t[1], t[2], s) \/ OnClosedSegment(t[3], t[4], s)

\* lo < q < hi for a quotient q, without the model's comparison operators.
StrictlyWithin(q, lo, hi) ==
    /\ q.d # 0
    /\ (q.n - lo * q.d) * q.d > 0
    /\ (hi * q.d - q.n) * q.d > 0

IsectCalled == isect # NotCalled

\* C1: two segments that cross strictly inside both (horizontal and vertical
\* segments included) make intersectLines return exactly the crossing point.
C1_CrossingPointReturned ==
    (IsectCalled /\ ProperCross(segA, segB)) =>
        /\ isect.kind = "Point"
        /\ OnLineOf(isect.x, isect.y, segA)
        /\ OnLineOf(isect.x, isect.y, segB)

\* C2: intersectLines never raises, and returns None whenever the determinant
\* is zero: parallel or collinear segments, or a segment of zero length.
C2_NoneWhenDeterminantZero ==
    IsectCalled =>
        /\ isect.kind # "ZeroDivisionError"
        /\ (Parallel(segA, segB) => isect = None)

\* A call on two collinear, overlapping segments of positive length.
C2_Witness ==
    /\ IsectCalled
    /\ segA = <<0, 0, 2, 2>>
    /\ segB = <<1, 1, 2, 2>>
    /\ isect = None

\* C3: a returned point lies strictly inside the bounding box of both segments
\* on both axes; segments that touch at an endpoint of either yield None.
C3_StrictInterior ==
    IsectCalled =>
        /\ (isect.kind = "Point" =>
              /\ StrictlyWithin(isect.x, Min(segA[1], segA[3]), Max(segA[1], segA[3]))
              /\ StrictlyWithin(isect.x, Min(segB[1], segB[3]), Max(segB[1], segB[3]))
              /\ StrictlyWithin(isect.y, Min(segA[2], segA[4]), Max(segA[2], segA[4]))
              /\ StrictlyWithin(isect.y, Min(segB[2], segB[4]), Max(segB[2], segB[4])))
        /\ (TouchAtEndpoint(segA, segB) => isect = None)

\* Two sloped segments crossing at (1, 1/2): the point is returned.
C3_Witness ==
    /\ isect.kind = "Point"
    /\ segA = <<0, 0, 2, 1>>
    /\ segB = <<0, 1, 2, 0>>
    /\ isect.x.n = isect.x.d
    /\ 2 * isect.y.n = isect.y.d

(***************************************************************************)
(* Claims about buildSpatialIndex and spatialKey                            *)
(***************************************************************************)
RECURSIVE SumOfSizes(_, _)
SumOfSizes(d, keys) ==
    IF keys = {} THEN 0
    ELSE LET k == CHOOSE k \in keys : TRUE
         IN  Cardinality(d[k]) + SumOfSizes(d, keys \ {k})

\* C4: the mapping buildSpatialIndex returns places every vertex index
\* 0 .. n-1 in exactly one bucket, the one of the vertex's own key, so the
\* bucket sizes sum to n; a mapping is returned for both densities.
C4_EveryVertexInItsBucket ==
    /\ (idx.kind = "Index" =>
          /\ \A i \in 0..(Len(geom) - 1) :
                /\ Cardinality({k \in DOMAIN idx.idx : i \in idx.idx[k]}) = 1
                /\ spatialKeyFromPoint(geom[i + 1], grid_scale).kind = "Key"
                /\ spatialKeyFromPoint(geom[i + 1], grid_scale).key \in DOMAIN idx.idx
                /\ i \in idx.idx[spatialKeyFromPoint(geom[i + 1], grid_scale).key]
          /\ \A k \in DOMAIN idx.idx : idx.idx[k] \subseteq 0..(Len(geom) - 1)
          /\ SumOfSizes(idx.idx, DOMAIN idx.idx) = Len(geom))
    /\ (idx # NotCalled /\ density \in {"ALL", "ENDS"} /\ grid_scale # 0 => idx.kind = "Index")

\* Three vertices, two of them in one bucket, indexed with density 'ENDS'.
C4_Witness ==
    /\ idx.kind = "Index"
    /\ density = "ENDS"
    /\ Len(geom) = 3
    /\ Cardinality(DOMAIN idx.idx) = 2
    /\ \E k \in DOMAIN idx.idx : idx.idx[k] = {0, 2}

\* The multiples of g nearest to x (two of them when x is half-way), g > 0.
NearestMultiples(x, g) ==
    {k \in {(x \div g) * g, (x \div g) * g + g} : 2 * Abs(x - k) <= g}
\* The multiples of g strictly nearer to x than any other.
StrictlyNearestMultiples(x, g) ==
    {k \in {(x \div g) * g, (x \div g) * g + g} : 2 * Abs(x - k) < g}

\* What str() gives for a float of value k; a zero prints as 0.0 or -0.0.
StringsOfValue(k) ==
    {StrFloat([s |-> sg, m |-> Abs(k)]) : sg \in {t \in {1, -1} : k # 0 => t * Abs(k) = k}}

\* key is 'X:Y' with X and Y the nearest multiples of g to the coordinates of pt.
KeyOfNearestMultiples(key, pt, g) ==
    \E kx \in NearestMultiples(pt[1], g), ky \in NearestMultiples(pt[2], g) :
        \E xs \in StringsOfValue(kx), ys \in StringsOfValue(ky) : key = xs \o <<":">> \o ys

SameCell(pt1, pt2, g) ==
    /\ NearestMultiples(pt1[1], g) \cap NearestMultiples(pt2[1], g) # {}
    /\ NearestMultiples(pt1[2], g) \cap NearestMultiples(pt2[2], g) # {}
InsideSameCell(pt1, pt2, g) ==
    /\ StrictlyNearestMultiples(pt1[1], g) \cap StrictlyNearestMultiples(pt2[1], g) # {}
    /\ StrictlyNearestMultiples(pt1[2], g) \cap StrictlyNearestMultiples(pt2[2], g) # {}
SameSigns(pt1, pt2) ==
    /\ (pt1[1] < 0) = (pt2[1] < 0)
    /\ (pt1[2] < 0) = (pt2[2] < 0)

\* g is 0.1, 1, 10, 100, ...
IsPowerOfTen(g) == \E k \in 0..6 : g = Pow10(k)

KeyCalled == keyOut # NotCalled /\ ~keyIn.invert

\* C5 as claimed: for every positive grid_size, a power of ten or not,
\* spatialKey rounds each coordinate to the nearest multiple of grid_size, and
\* two points have the same key if and only if they are in the same cell.
C5_NearestMultipleOfAnyGridSize ==
    (KeyCalled /\ keyIn.grid_size > 0) =>
        /\ keyOut.p.kind = "Key" /\ keyOut.q.kind = "Key"
        /\ KeyOfNearestMultiples(keyOut.p.key, keyIn.p, keyIn.grid_size)
        /\ KeyOfNearestMultiples(keyOut.q.key, keyIn.q, keyIn.grid_size)
        /\ (keyOut.p.key = keyOut.q.key => SameCell(keyIn.p, keyIn.q, keyIn.grid_size))
        /\ (InsideSameCell(keyIn.p, keyIn.q, keyIn.grid_size) => keyOut.p.key = keyOut.q.key)

\* C5 as amended: for a grid_size that is a power of ten, spatialKey rounds
\* each coordinate to the nearest multiple of grid_size; two points with the
\* same key are in the same cell, and two points inside one cell have the
\* same key when their coordinates have the same signs.
C5_NearestMultipleOfPowerOfTen ==
    (KeyCalled /\ IsPowerOfTen(keyIn.grid_size)) =>
        /\ keyOut.p.kind = "Key" /\ keyOut.q.kind = "Key"
        /\ KeyOfNearestMultiples(keyOut.p.key, keyIn.p, keyIn.grid_size)
        /\ KeyOfNearestMultiples(keyOut.q.key, keyIn.q, keyIn.grid_size)
        /\ (keyOut.p.key = keyOut.q.key => SameCell(keyIn.p, keyIn.q, keyIn.grid_size))
        /\ (InsideSameCell(keyIn.p, keyIn.q, keyIn.grid_size) /\ SameSigns(keyIn.p, keyIn.q)
              => keyOut.p.key = keyOut.q.key)

\* 149.9 and 50.0 keyed with grid size 100: both round to 100.0.
C5_Witness ==
    /\ KeyCalled
    /\ keyIn.grid_size = 1000
    /\ keyIn.p = <<1499, 250>>
    /\ keyIn.q = <<500, 250>>
    /\ keyOut.p.key = <<"1", "0", "0", ".", "0", ":", "0", ".", "0">>
    /\ keyOut.q.key = keyOut.p.key

(***************************************************************************)
(* Claims about buildSpatialIndexFC                                         *)
(***************************************************************************)
\* The keys under which vertex i of feature oid is found.
FCKeysOf(oid, i) ==
    {k \in DOMAIN fcIdx.idx :
        /\ oid \in DOMAIN fcIdx.idx[k]
        /\ \E j \in 1..Len(fcIdx.idx[k][oid]) : fcIdx.idx[k][oid][j] = i}

\* The last three digits of the whole-number part of a coordinate, the
\* 1000-unit cell of the coordinate and the cell across the near boundary.
LastThreeDigits(v) == (v \div Scale) % 1000
NearCellBoundary(v) == LastThreeDigits(v) >= 950 \/ LastThreeDigits(v) <= 50
CellOf(v) == (v \div Scale) \div 1000
AdjacentCellOf(v) == IF LastThreeDigits(v) >= 950 THEN CellOf(v) + 1 ELSE CellOf(v) - 1
CellsOf(v) == {CellOf(v)} \cup (IF NearCellBoundary(v) THEN {AdjacentCellOf(v)} ELSE {})
CellKey(cx, cy) == StrNat(cx) \o <<":">> \o StrNat(cy)

\* C6: a vertex is indexed under the key of its own cell and, for each axis on
\* which its coordinate ends in 950-999 or 000-050, also under the key of the
\* adjacent cell across that boundary: 1, 2 or 4 distinct keys.
C6_FuzzyKeysOfEveryVertex ==
    fcIdx.kind = "Index" =>
        \A r \in 1..Len(fc) : \A i \in 0..(Len(fc[r].shape) - 1) :
            LET pt == fc[r].shape[i + 1]
                near == Cardinality({a \in {1, 2} : NearCellBoundary(pt[a])})
            IN  /\ FCKeysOf(fc[r].oid, i) = {CellKey(cx, cy) : cx \in CellsOf(pt[1]), cy \in CellsOf(pt[2])}
                /\ Cardinality(FCKeysOf(fc[r].oid, i)) = (IF near = 0 THEN 1 ELSE IF near = 1 THEN 2 ELSE 4)

(***************************************************************************)
(* Claims about makeNearbyKeys                                              *)
(***************************************************************************)
NKReturned == nkPc = "done"
NKOwnKey == spatialKey(nk.lon, nk.lat, nk.grid_size, FALSE)

\* C7 as claimed: for all arguments, the returned set contains the key of
\* the query point itself.
C7_OwnKeyAlwaysReturned ==
    NKReturned => (NKOwnKey.kind = "Key" /\ NKOwnKey.key \in newkeys)

\* C7 as amended: the zero offset is always a candidate; the returned set
\* contains the query point's own key whenever min_delta > 0, and is empty
\* when min_delta <= 0.
C7_OwnKeyReturnedForPositiveMinDelta ==
    /\ (nkPc \in {"pairs", "done", "raised"} =>
           (nk.lat \in lat_increments /\ nk.lon \in lon_increments))
    /\ (NKReturned /\ nk.min_delta > 0 => (NKOwnKey.kind = "Key" /\ NKOwnKey.key \in newkeys))
    /\ (NKReturned /\ nk.min_delta <= 0 => newkeys = {})

\* A return with max_lat_delta = 0, further keys besides the own one.
C7_Witness ==
    /\ NKReturned
    /\ nk.max_lat_delta = 0
    /\ nk.min_delta = 13
    /\ NKOwnKey.key \in newkeys
    /\ Cardinality(newkeys) = 3

\* C8: every returned key is the key of a candidate (latitude, longitude)
\* whose Euclidean offset from the query point is strictly less than
\* min_delta.
C8_KeysOnlyWithinMinDelta ==
    NKReturned =>
        \A k \in newkeys :
            \E la \in lat_increments, lo \in lon_increments :
                /\ nk.min_delta > 0
                /\ (la - nk.lat) * (la - nk.lat) + (lo - nk.lon) * (lo - nk.lon)
                      < nk.min_delta * nk.min_delta
                /\ spatialKey(lo, la, nk.grid_size, FALSE) = Key(k)

\* A return where candidates at offset exactly min_delta exist and only the
\* query point's own key is returned.
C8_Witness ==
    /\ NKReturned
    /\ nk.grid_size = 10 /\ nk.min_delta = 10
    /\ nk.lat + 10 \in lat_increments
    /\ nk.lon - 10 \in lon_increments
    /\ newkeys = {NKOwnKey.key}

\* C9: the candidate offsets are multiples of grid_size and none exceeds its
\* bound: |offset| <= max_lat_delta for latitudes, <= max_lon_delta for
\* longitudes, also when the bound is no multiple of grid_size.
C9_OffsetsWithinMaxDelta ==
    /\ \A c \in lat_increments :
          /\ Abs(c - nk.lat) <= nk.max_lat_delta
          /\ \E m \in -MaxIter..MaxIter : c - nk.lat = m * nk.grid_size
    /\ \A c \in lon_increments :
          /\ Abs(c - nk.lon) <= nk.max_lon_delta
          /\ \E m \in -MaxIter..MaxIter : c - nk.lon = m * nk.grid_size

(***************************************************************************)
(* Claims about extendLineAlongAzimuth                                      *)
(***************************************************************************)
\* e is the point l displaced by d along the bearing from f to l (north when
\* f = l, the bearing atan2(0, 0) = 0): the step from l to e has length |d|,
\* is parallel to the step from f to l and points the same way for d > 0,
\* the opposite way for d < 0.
DisplacedAlongBearing(e, f, l, d) ==
    LET vx == l[1] - f[1]
        vy == l[2] - f[2]
        wx == e[1] - l[1]
        wy == e[2] - l[2]
    IN  IF vx = 0 /\ vy = 0
        THEN wx = 0 /\ wy = d
        ELSE /\ wx * wx + wy * wy = d * d
             /\ vx * wy - vy * wx = 0
             /\ (d > 0 => vx * wx + vy * wy > 0)
             /\ (d < 0 => vx * wx + vy * wy < 0)

\* C10: with direction 'AZIMUTH' the call returns a new line of exactly two
\* points, from the original first point to the original last point
\* displaced by distance along the bearing from first to last point, and
\* leaves the input line as it was.
C10_ExtendedAlongAzimuth ==
    [][(extended = NotCalled /\ extended' # NotCalled /\ direction = "AZIMUTH") =>
          /\ line' = line
          /\ extended'.kind = "Polyline"
          /\ Len(extended'.pts) = 2
          /\ extended'.pts[1] = firstPoint(line)
          /\ DisplacedAlongBearing(extended'.pts[2], firstPoint(line), lastPoint(line), distance)]_vars

\* (0, 0)-(0, 10) extended by 5 ends at (0, 15).
C10_Witness ==
    /\ line = <<<<0, 0>>, <<0, 10>>>>
    /\ distance = 5
    /\ direction = "AZIMUTH"
    /\ extended = [kind |-> "Polyline", pts |-> <<<<0, 0>>, <<0, 15>>>>]

\* C11: for a two-point line, direction 'OPPOSITE' returns the line that
\* starts at the original last point and ends at the original first point
\* displaced by distance away from the original last point ((0,0)-(0,10)
\* extended by 5 gives (0,10)-(0,-5)).  A line whose two points coincide has
\* azimuth 0, so its reverse azimuth points south.
C11_OppositeExtendsFromFirstPoint ==
    (extended # NotCalled /\ direction = "OPPOSITE" /\ pointCount(line) = 2) =>
        /\ extended # False
        /\ extended.kind = "Polyline"
        /\ Len(extended.pts) = 2
        /\ extended.pts[1] = lastPoint(line)
        /\ IF firstPoint(line) = lastPoint(line)
           THEN extended.pts[2] = <<firstPoint(line)[1], firstPoint(line)[2] - distance>>
           ELSE DisplacedAlongBearing(extended.pts[2], lastPoint(line), firstPoint(line), distance)

\* (0, 0)-(0, 10) extended by 5 in the opposite direction: (0, 10)-(0, -5).
C11_Witness ==
    /\ line = <<<<0, 0>>, <<0, 10>>>>
    /\ distance = 5
    /\ direction = "OPPOSITE"
    /\ extended = [kind |-> "Polyline", pts |-> <<<<0, 10>>, <<0, -5>>>>]

\* C12: direction 'OPPOSITE' returns False, and no geometry, for every line
\* of more than two points, and a geometry for every line of two points.
C12_SentinelIffMoreThanTwoPoints ==
    (extended # NotCalled /\ direction = "OPPOSITE") =>
        /\ pointCount(line) > 2 => extended = False
        /\ pointCount(line) = 2 => (extended # False /\ extended.kind = "Polyline")

\* A line of three points was passed with 'OPPOSITE' and False came back.
C12_Witness ==
    /\ pointCount(line) = 3
    /\ direction = "OPPOSITE"
    /\ extended = False

\* The square of the distance between two points.
DistSq(p, q) == (q[1] - p[1]) * (q[1] - p[1]) + (q[2] - p[2]) * (q[2] - p[2])

\* d > -(distance from p to q), and d >= -(that distance), without a square root.
MoreThanMinusDist(d, p, q) == d >= 0 \/ d * d < DistSq(p, q)
MinusDist(d, p, q) == d <= 0 /\ d * d = DistSq(p, q)

\* The last point lies due north of the first point, or on it (azimuth 0).
PointsNorth(g) == lastPoint(g)[1] = firstPoint(g)[1] /\ lastPoint(g)[2] >= firstPoint(g)[2]

RoundTripDone == restored # NotCalled /\ direction = "AZIMUTH"

\* C13 as stated: for every line and every distance d, extending by d and
\* then by -d, both with 'AZIMUTH', ends at the original last point.
C13_RoundTripForEveryDistance ==
    RoundTripDone => lastPoint(restored.pts) = lastPoint(line)

\* C13, amended: the round trip ends at the original last point exactly when
\* d is greater than minus the distance from the first to the last point, or
\* equal to it on a line that points north.  (For smaller d the first
\* extension ends behind the first point, the result has the reverse
\* azimuth, and the second extension moves further away.)
C13_RoundTripWhileAzimuthKept ==
    RoundTripDone =>
        (lastPoint(restored.pts) = lastPoint(line)
            <=> \/ MoreThanMinusDist(distance, firstPoint(line), lastPoint(line))
                \/ MinusDist(distance, firstPoint(line), lastPoint(line)) /\ PointsNorth(line))

\* (0, 0)-(0, 10) by -5 gives (0, 0)-(0, 5), and that by 5 gives (0, 0)-(0, 10).
C13_Witness ==
    /\ line = <<<<0, 0>>, <<0, 10>>>>
    /\ distance = -5
    /\ direction = "AZIMUTH"
    /\ extended = [kind |-> "Polyline", pts |-> <<<<0, 0>>, <<0, 5>>>>]
    /\ restored = [kind |-> "Polyline", pts |-> <<<<0, 0>>, <<0, 10>>>>]

(***************************************************************************)
(* Claims about getAzimuth                                                  *)
(***************************************************************************)
AzCalled == azimuthOut # NotCalled
AzDeltaX == lastPoint(azLine)[1] - firstPoint(azLine)[1]
AzDeltaY == lastPoint(azLine)[2] - firstPoint(azLine)[2]
Degrees(d) == d * AngleUnits

\* C14 as stated: for every line, the azimuth of the line with its endpoints
\* swapped equals (getAzimuth(line) + 180) mod 360.
C14_SwapAddsHalfTurn ==
    AzCalled => azimuthOut.flipped = (azimuthOut.azimuth + Degrees(180)) % Degrees(360)

\* The two azimuths differ by a half turn, up to one ulp of the float 360.0.
HalfTurnApart(a, b) == Abs(Abs(a - b) - Degrees(180)) <= Ulp(Degrees(360))

\* C14, amended: for every line whose first and last point differ, the
\* azimuth of the line with its endpoints swapped and the azimuth of the
\* line differ by 180 degrees, up to the rounding of the floats; a line
\* whose first and last point coincide has azimuth 0 both ways.
C14_SwapAddsHalfTurnUnlessClosed ==
    AzCalled =>
        IF firstPoint(azLine) = lastPoint(azLine)
        THEN azimuthOut.azimuth = 0 /\ azimuthOut.flipped = 0
        ELSE HalfTurnApart(azimuthOut.azimuth, azimuthOut.flipped)

\* A line to the north-east, azimuth 45, whose reverse has azimuth 225.
C14_Witness ==
    /\ azLine = <<<<0, 0>>, <<2, 2>>>>
    /\ AzCalled
    /\ azimuthOut.azimuth = Degrees(45)
    /\ azimuthOut.flipped = Degrees(225)

\* C15: getAzimuth returns a value a with 0 <= a < 360, never 360, that is
\* the bearing clockwise from north from the first to the last point: 0 to
\* the north, 90 to the east, 180 to the south, 270 to the west, and a value
\* strictly between those of the two nearest axes for a line in between.
C15_BearingInHalfOpenRange ==
    AzCalled =>
        LET a == azimuthOut.azimuth
        IN  /\ 0 <= a /\ a < Degrees(360)
            /\ (AzDeltaX = 0 /\ AzDeltaY > 0) => a = 0
            /\ (AzDeltaX > 0 /\ AzDeltaY = 0) => a = Degrees(90)
            /\ (AzDeltaX = 0 /\ AzDeltaY < 0) => a = Degrees(180)
            /\ (AzDeltaX < 0 /\ AzDeltaY = 0) => a = Degrees(270)
            /\ (AzDeltaX > 0 /\ AzDeltaY > 0) => (0 < a /\ a < Degrees(90))
            /\ (AzDeltaX > 0 /\ AzDeltaY < 0) => (Degrees(90) < a /\ a < Degrees(180))
            /\ (AzDeltaX < 0 /\ AzDeltaY < 0) => (Degrees(180) < a /\ a < Degrees(270))
            /\ (AzDeltaX < 0 /\ AzDeltaY > 0) => (Degrees(270) < a /\ a < Degrees(360))

(***************************************************************************)
(* Claims about extendLinesToIntersect                                      *)
(***************************************************************************)
ELIDone == eliPc = "done"
ELIRows == 1..Len(lineFC)

\* The intersection that replaced the end of row i.
Chosen(i) == intersections[i][closest[i]]

\* Row i as the first cursor left it: extended by maxDistance, or as it was
\* where the extension failed.
Searched(i) ==
    LET e == extendLineAlongAzimuth(lineFC[i], maxDistance, eliDirection)
    IN  IF e = False THEN lineFC[i] ELSE e.pts

\* C16: after extendLinesToIntersect, every line whose extension met no
\* intersection, and every line for which no closest intersection was found,
\* has in the output the geometry it had in the input.
C16_UnmatchedLinesUnmodified ==
    ELIDone =>
        \A i \in ELIRows :
            (intersections[i] = <<>> \/ closest[i] = 0) => extendedLineFC[i] = lineFC[i]

\* C17 as stated: a line is replaced only with an intersection whose
\* distance from the line's original start point is at most maxDistance.
C17_NewEndWithinMaxDistanceOfStart ==
    ELIDone =>
        \A i \in ELIRows :
            closest[i] # 0 =>
                DistSq(firstPoint(lineFC[i]), Chosen(i)) <= maxDistance * maxDistance

\* C17, amended: a line is replaced only with an intersection that lies on
\* the line as the first cursor left it, no farther from that line's first
\* point than the line is long; for a two-point line that length is the
\* original length plus maxDistance, and the first point is the original
\* start point with 'AZIMUTH', the original end point with 'OPPOSITE'.
C17_NewEndOnExtendedLine ==
    ELIDone =>
        \A i \in ELIRows :
            closest[i] # 0 =>
                LET g == Searched(i)
                    length == PolylineLength(g)
                IN  /\ \E f \in 1..Len(intersectFC) :
                           \E k \in 1..Len(intersectFC[f]) : intersectFC[f][k] = Chosen(i)
                    /\ OnClosedSegment(Chosen(i)[1], Chosen(i)[2],
                                       <<g[1][1], g[1][2], g[2][1], g[2][2]>>)
                       \/ (Len(g) = 3 /\ OnClosedSegment(Chosen(i)[1], Chosen(i)[2],
                                                          <<g[2][1], g[2][2], g[3][1], g[3][2]>>))
                    /\ DistSq(firstPoint(g), Chosen(i)) <= length * length
                    /\ Len(lineFC[i]) = 2 =>
                           /\ length = PolylineLength(lineFC[i]) + maxDistance
                           /\ firstPoint(g) = IF eliDirection = "AZIMUTH"
                                              THEN firstPoint(lineFC[i]) ELSE lastPoint(lineFC[i])

\* The line (0, 0)-(0, 10) with maxDistance 5 is replaced by (0, 0)-(0, 15),
\* whose end is 15 from the start.
C17_Witness ==
    /\ ELIDone
    /\ lineFC = <<<<<<0, 0>>, <<0, 10>>>>>>
    /\ intersectFC = <<<<<<0, 15>>>>>>
    /\ maxDistance = 5
    /\ eliDirection = "AZIMUTH"
    /\ extendedLineFC = <<<<<<0, 0>>, <<0, 15>>>>>>

\* C18: the intersection that replaces the end of a line is, among the
\* candidates of the line, one of smallest distance to the first point of
\* the line, and the first such in the list; with a positive maxDistance
\* every line that has candidates is replaced.
C18_ClosestFirstFound ==
    ELIDone =>
        \A i \in ELIRows :
            LET f == firstPoint(Searched(i))
                cands == intersections[i]
            IN  /\ closest[i] # 0 =>
                       /\ \A k \in 1..Len(cands) :
                              /\ DistSq(f, Chosen(i)) <= DistSq(f, cands[k])
                              /\ k < closest[i] => DistSq(f, Chosen(i)) < DistSq(f, cands[k])
                       /\ extendedLineFC[i] = IF eliDirection = "AZIMUTH"
                                              THEN <<f, Chosen(i)>> ELSE <<Chosen(i), f>>
                /\ (cands # <<>> /\ maxDistance > 0) => closest[i] # 0

\* Two candidates at distance 5 from the first point of a line of three
\* points: the first of the list is kept.
C18_Witness ==
    /\ ELIDone
    /\ lineFC = <<<<<<0, 0>>, <<3, 4>>, <<-3, 4>>>>>>
    /\ eliDirection = "OPPOSITE"
    /\ intersections = <<<<<<-3, 4>>, <<3, 4>>>>>>
    /\ closest = <<1>>
    /\ extendedLineFC = <<<<<<-3, 4>>, <<0, 0>>>>>>

(***************************************************************************)
(* Claims about splitRectangle                                              *)
(***************************************************************************)
SplitCalled == halves # NotCalled

\* Twice the signed area of a ring of five points (the shoelace formula).
TwiceArea(r) ==
    (r[1][1] * r[2][2] - r[2][1] * r[1][2]) + (r[2][1] * r[3][2] - r[3][1] * r[2][2])
        + (r[3][1] * r[4][2] - r[4][1] * r[3][2]) + (r[4][1] * r[5][2] - r[5][1] * r[4][2])

\* The vector from r[i] to r[i + 1], and the dot product of two vectors.
Side(r, i) == <<r[i + 1][1] - r[i][1], r[i + 1][2] - r[i][2]>>
Dot(u, v) == u[1] * v[1] + u[2] * v[2]

\* r is a closed ring of four corners with right angles whose sides are
\* a and b long (a2 and b2 are the squares of a and b).
IsRectangleOf(r, a2, b2) ==
    /\ Len(r) = 5 /\ r[5] = r[1]
    /\ Cardinality({r[1], r[2], r[3], r[4]}) = 4
    /\ \A i \in 1..3 : Dot(Side(r, i), Side(r, i + 1)) = 0
    /\ Dot(Side(r, 4), Side(r, 1)) = 0
    /\ {Dot(Side(r, 1), Side(r, 1)), Dot(Side(r, 2), Side(r, 2))} = {a2, b2}
    /\ Dot(Side(r, 3), Side(r, 3)) = Dot(Side(r, 1), Side(r, 1))
    /\ Dot(Side(r, 4), Side(r, 4)) = Dot(Side(r, 2), Side(r, 2))

\* The squares of the length L and the width W of the rectangle passed.
LengthSq == Max(DistSq(rectangle[1], rectangle[2]), DistSq(rectangle[2], rectangle[3]))
WidthSq == Min(DistSq(rectangle[1], rectangle[2]), DistSq(rectangle[2], rectangle[3]))

\* m is the middle of the i-th edge of the rectangle passed.
MiddleOfEdge(m, i) ==
    /\ 2 * m[1] = rectangle[i][1] + rectangle[i + 1][1]
    /\ 2 * m[2] = rectangle[i][2] + rectangle[i + 1][2]

\* The points m and n are the middles of two opposite edges of length L.
MiddlesOfLongEdges(m, n) ==
    \E i \in 1..2 :
        /\ DistSq(rectangle[i], rectangle[i + 1]) = LengthSq
        /\ MiddleOfEdge(m, i) /\ MiddleOfEdge(n, i + 2)

RingPoints(r) == {r[i] : i \in 1..Len(r)}

\* C19: for a rectangle of length L and width W given as a ring of five
\* points, whichever corner the ring starts at, whichever way round it runs
\* and whether its first edge is long or short, splitRectangle returns two
\* closed rings that are rectangles of L/2 by W, that share the segment
\* between the middles of the two long edges, that have between them the
\* four corners of the rectangle, and whose areas add up to L * W.
C19_TwoHalvesAlongTheLongAxis ==
    (SplitCalled /\ rectangle \in Rectangles) =>
        /\ halves.kind = "List"
        /\ \E h2 \in 1..LengthSq :
               /\ 4 * h2 = LengthSq
               /\ IsRectangleOf(halves.r1pgon, h2, WidthSq)
               /\ IsRectangleOf(halves.r2pgon, h2, WidthSq)
        /\ \E m, n \in RingPoints(halves.r1pgon) \cap RingPoints(halves.r2pgon) :
               /\ MiddlesOfLongEdges(m, n)
               /\ RingPoints(halves.r1pgon) \cap RingPoints(halves.r2pgon) = {m, n}
        /\ RingPoints(rectangle) \subseteq RingPoints(halves.r1pgon) \cup RingPoints(halves.r2pgon)
        /\ Abs(TwiceArea(halves.r1pgon)) + Abs(TwiceArea(halves.r2pgon)) = Abs(TwiceArea(rectangle))
        /\ Abs(TwiceArea(rectangle)) * Abs(TwiceArea(rectangle)) = 4 * LengthSq * WidthSq

\* A rectangle of 10 by 4 whose ring starts with a short edge gives two
\* rectangles of 5 by 4.
C19_Witness ==
    /\ rectangle = <<<<0, 0>>, <<0, 4>>, <<10, 4>>, <<10, 0>>, <<0, 0>>>>
    /\ SplitCalled
    /\ halves.kind = "List"
    /\ halves.r1pgon = <<<<0, 4>>, <<5, 4>>, <<5, 0>>, <<0, 0>>, <<0, 4>>>>
    /\ halves.r2pgon = <<<<5, 4>>, <<10, 4>>, <<10, 0>>, <<5, 0>>, <<5, 4>>>>

\* C20: called with a ring that has not four corners and a closing point,
\* splitRectangle returns a failure value: it neither raises nor returns
\* two polygons.
C20_FailureValueForWrongVertexCount ==
    (SplitCalled /\ Len(rectangle) # 5) => halves = False

(***************************************************************************)
(* Claims about lines that cross the boundary before being extended         *)
(***************************************************************************)
\* C25: extendLinesToIntersect never shortens a line: the output line of
\* every row is at least as long as the input line, and both end points of
\* the input line lie on it.
C25_NeverShortened ==
    ELIDone =>
        \A i \in ELIRows :
            /\ PolylineLength(extendedLineFC[i]) >= PolylineLength(lineFC[i])
            /\ PointOnPolyline(firstPoint(lineFC[i]), extendedLineFC[i])
            /\ PointOnPolyline(lastPoint(lineFC[i]), extendedLineFC[i])

\* The line (0, 0)-(0, 10) crosses the boundary at (0, 5): it comes out as
\* (0, 0)-(0, 5), half as long, without its end point.
C25_CrossingLineCut ==
    /\ ELIDone
    /\ lineFC = <<<<<<0, 0>>, <<0, 10>>>>>>
    /\ intersectFC = <<<<<<0, 5>>>>>>
    /\ maxDistance = 5
    /\ eliDirection = "AZIMUTH"
    /\ extendedLineFC = <<<<<<0, 0>>, <<0, 5>>>>>>

(***************************************************************************)
(* Claims about the termination of makeNearbyKeys                           *)
(***************************************************************************)
\* The four while loops are over: the call is at the pairs or has returned
\* or raised.
NKLoopsLeft == nkPc \in {"pairs", "done", "raised"}

\* A while loop that ran MaxIter times without reaching its exit test.
NKLoopCut == nkPc \in {"lat_while", "lon_while"} /\ nkIter = MaxIter

\* The loops of every call with a grid size other than 0 end within the
\* iterations the model follows.
NKCutOnlyForZeroGrid == NKLoopCut => nk.grid_size = 0

\* C24: every call of makeNearbyKeys leaves its while loops after finitely
\* many steps, for every grid_size, max_lat_delta and max_lon_delta.
C24_LoopsExit == <>NKLoopsLeft

(***************************************************************************)
(* Claims about the symmetry of intersectLines                              *)
(***************************************************************************)
IsectAgain == isectAlt # NotCalled

\* The largest absolute value of a coordinate of the two segments.
LargestCoord ==
    LET cs == {Abs(segA[i]) : i \in 1..4} \cup {Abs(segB[i]) : i \in 1..4}
    IN  CHOOSE c \in cs : \A c2 \in cs : c2 <= c

\* No product, sum or difference of lines 1488-1501 is rounded, whatever the
\* order of the end points: the largest, a product of B and C less another,
\* is at most 16 c^3 for integer coordinates of absolute value up to c.
ExactArithmetic == 16 * LargestCoord * LargestCoord * LargestCoord <= Pow2(MantissaBits)

\* C28 as stated: intersectLines(a, b) equals intersectLines(b, a), and the
\* result is the same when the end points of either segment, or of both,
\* are given in the opposite order.
C28_SymmetricAndOrderFree ==
    IsectAgain =>
        /\ isectAlt.swapped = isect
        /\ isectAlt.reversedA = isect
        /\ isectAlt.reversedB = isect
        /\ isectAlt.reversedBoth = isect

\* C28, amended: intersectLines(a, b) equals intersectLines(b, a) for all
\* segments; the result is the same with the end points of either segment in
\* the opposite order where the arithmetic is exact, that is for integer
\* coordinates small enough that no product is rounded.
C28_SymmetricAndOrderFreeWhereExact ==
    IsectAgain =>
        /\ isectAlt.swapped = isect
        /\ ExactArithmetic =>
               /\ isectAlt.reversedA = isect
               /\ isectAlt.reversedB = isect
               /\ isectAlt.reversedBoth = isect

\* The diagonals (0, 0)-(4, 4) and (0, 4)-(4, 0) cross at (2, 2) in every
\* order, and two segments of large coordinates cross at the same rounded
\* point when swapped.
C28_Witness ==
    /\ IsectAgain
    /\ segA = <<0, 0, 4, 4>> /\ segB = <<0, 4, 4, 0>>
    /\ ExactArithmetic
    /\ isect = [kind |-> "Point", x |-> [kind |-> "Quot", n |-> 2, d |-> 1],
                                  y |-> [kind |-> "Quot", n |-> 2, d |-> 1]]
    /\ isectAlt.swapped = isect
    /\ isectAlt.reversedBoth = isect

(***************************************************************************)
(* Claims about polygonReduction                                            *)
(***************************************************************************)
\* The bisection that the model does not follow: the call is about to split
\* at depth MaxDepth.
PRCut == prPc = "split" /\ polygonFC # <<>> /\ prDepth = MaxDepth

\* A call is cut only where no later call can accept: reductionRatio is at
\* most 1, or the ratio r of the polygon and the ratio 2 / r of its half are
\* both at least reductionRatio, so that the ratios r, 2 / r, r, ... recur.
PRCutOnlyWhereNoAccept ==
    PRCut =>
        \/ reductionRatio[1] <= reductionRatio[2]
        \/ LET l == MeasuredLength(polygonFC)
               w == MeasuredWidth(polygonFC)
           IN  /\ l * reductionRatio[2] >= reductionRatio[1] * w
               /\ 2 * w * reductionRatio[2] >= reductionRatio[1] * l

\* C21: every run of polygonReduction reaches ACCEPT, for every polygon,
\* every set of reference points and every reductionRatio.
C21_ReachesAccept == <>(prPc = "accepted")

\* The sides of the last polygon of the feature class.
LastDX == polygonFC[Len(polygonFC)][3] - polygonFC[Len(polygonFC)][1]
LastDY == polygonFC[Len(polygonFC)][4] - polygonFC[Len(polygonFC)][2]

\* length / width of the bounding rectangle is strictly less than
\* reductionRatio (the reducer is given one polygon).
StrictlyBelowRatio ==
    IF LastDX >= LastDY
    THEN LastDX * reductionRatio[2] < reductionRatio[1] * LastDY
    ELSE LastDY * reductionRatio[2] < reductionRatio[1] * LastDX

C23_OneHalfWithReferencePoint ==
    (prPc = "measure" /\ prDepth > 0) =>
        /\ Len(polygonFC) = 1
        /\ \E i \in 1..Len(fcCutInHalf) : polygonFC[1] = fcCutInHalf[i]
        /\ \E p \in basePts : Contains(polygonFC[1], p)

(***************************************************************************)
(* Claims about deleteMultipleFC                                            *)
(***************************************************************************)
DelFCCalled == fcToDelete # NotCalled

\* C26: every item given to arcpy.Delete_management has passed fcAvailable,
\* and no unavailable item is left in the list after the filtering loop.
C26_OnlyAvailableDeleted ==
    DelFCCalled =>
        /\ \A i \in 1..Len(fcToDelete.deleted) : fcToDelete.deleted[i] \in availableFC
        /\ \A i \in 1..Len(fcToDelete.list) : fcToDelete.list[i] \in availableFC

\* 'DEL' of the list a, b, neither available: b is given to
\* Delete_management.
C26_SecondOfTwoKept ==
    /\ DelFCCalled
    /\ action = "DEL"
    /\ fcList = List(<<"a", "b">>)
    /\ availableFC = {}
    /\ fcToDelete.deleted = <<<<"gdb", "b">>>>

(***************************************************************************)
(* Claims about deleteFields                                                *)
(***************************************************************************)
DelFieldsCalled == fieldsToDelete # NotCalled /\ fieldsToDelete.called

\* C27: every name given to arcpy.DeleteField_management is the name of a
\* field of the feature class that is not required.
C27_OnlyExistingNonRequired ==
    DelFieldsCalled =>
        \A i \in 1..Len(fieldsToDelete.handed) :
            /\ InList(fieldsToDelete.handed[i], dfFC.fields)
            /\ fieldsToDelete.handed[i] \notin dfFC.required

\* 'DEL' of the list x, Shape: x is removed, the required field Shape is
\* given to DeleteField_management.
C27_RequiredFieldHanded ==
    /\ DelFieldsCalled
    /\ dfAction = "DEL"
    /\ fieldList = List(<<"x", "Shape">>)
    /\ dfFC.required = {"OBJECTID", "Shape"}
    /\ fieldsToDelete.handed = <<"Shape">>

(***************************************************************************)
(* Claims about ArcLogger                                                   *)
(***************************************************************************)
\* The messages of arcMessage, arcWarn and arcError that arcpy has received,
\* and those among what the native logger has received.
RECURSIVE ArcMessagesIn(_)
ArcMessagesIn(log) ==
    IF log = <<>> THEN <<>>
    ELSE (IF Head(log).msg \in Messages THEN <<Head(log).msg>> ELSE <<>>) \o ArcMessagesIn(Tail(log))

\* C29: in every state of a logger no call of arcMessage, arcWarn or
\* arcError has raised, and every message given to arcpy has been given to
\* the native logger too.
C29_ForwardedWithoutRaising ==
    /\ logRaised # "AttributeError"
    /\ ArcMessagesIn(nativeLog) = ArcMessagesIn(arcpyLog)

\* arcMessage directly after the construction: arcpy has the message, the
\* native logger has not, and the call has raised.
C29_RaisedAfterConstruction ==
    /\ logCalls = 1
    /\ diskLogName = Unset
    /\ arcpyLog = <<[function |-> "AddMessage", msg |-> "m1"]>>
    /\ nativeLog = <<>>
    /\ logRaised = "AttributeError"
====
